---- MODULE Spec2Model ----
(***************************************************************************)
(* A model of the eszip V2 archive (src/src/v2.rs, src/src/lib.rs): the    *)
(* ordered module map with its Pending/Ready/Taken slots, the builder      *)
(* operations, the byte-level writer (into_bytes), the two-phase parser    *)
(* (parse_with_magic and its continuation future) and the consumers that   *)
(* poll sources through module handles.                                    *)
(*                                                                         *)
(* Bytes are integers 0..255, strings are sequences of bytes (UTF-8).      *)
(***************************************************************************)
EXTENDS Integers, Sequences, FiniteSets, TLC

\* ------------------------------------------------------------------ bounds
\* number of builder operations applied to an archive before it is written
MaxOps == 2
\* number of consumer threads holding module handles
NumConsumers == 2
\* total number of wakers registered in the slots of one module
MaxWakers == 2
\* the first read of the transport delivers at most this many bytes, or all
MaxFirstRead == 9

\* ------------------------------------------------------- program constants
HeaderFrameKind_Module == 0
HeaderFrameKind_Redirect == 1
HeaderFrameKind_NpmSpecifier == 2

ESZIP_V2_MAGIC == <<69, 83, 90, 73, 80, 95, 86, 50>>
ESZIP_V2_1_MAGIC == <<69, 83, 90, 73, 80, 50, 46, 49>>
ESZIP_V2_2_MAGIC == <<69, 83, 90, 73, 80, 50, 46, 50>>
LATEST_VERSION == ESZIP_V2_2_MAGIC

\* ModuleKind (lib.rs), by discriminant
JavaScript == 0
Json == 1
Jsonc == 2
OpaqueData == 3

\* Checksum (v2.rs), by discriminant
NoChecksum == 0
Sha256 == 1
XxHash3 == 2
Checksums == {NoChecksum, Sha256, XxHash3}

\* Option<T>: None is the empty sequence, Some(x) the sequence of x alone
None == <<>>
Some(x) == <<x>>
IsSome(o) == o # <<>>
Unwrap(o) == o[1]

\* ------------------------------------------------------------ byte helpers
Byte == 0..255

\* sum of the bytes b[lo..hi], halving the range to keep the recursion shallow
RECURSIVE SumRange(_, _, _)
SumRange(b, lo, hi) ==
  IF lo > hi THEN 0
  ELSE IF lo = hi THEN b[lo]
  ELSE LET mid == (lo + hi) \div 2
       IN  SumRange(b, lo, mid) + SumRange(b, mid + 1, hi)

SumBytes(b) == SumRange(b, 1, Len(b))

\* positional sum, so that a digest also depends on the order of the bytes
RECURSIVE MixRange(_, _, _, _)
MixRange(b, lo, hi, i) ==
  IF lo > hi THEN 0
  ELSE IF lo = hi THEN ((i + lo - 1) * b[lo]) % 65536
  ELSE LET mid == (lo + hi) \div 2
       IN  (MixRange(b, lo, mid, i) + MixRange(b, mid + 1, hi, i)) % 65536

MixBytes(b, i) == MixRange(b, 1, Len(b), i)

\* fault: the little-endian encoding (u32::to_le_bytes)
to_le_bytes(n) ==
  << n % 256, (n \div 256) % 256, (n \div 65536) % 256, (n \div 16777216) % 256 >>

to_be_bytes(n) ==
  << (n \div 16777216) % 256, (n \div 65536) % 256, (n \div 256) % 256, n % 256 >>

\* u32::from_be_bytes, widened to usize.  Every value of 2^24 and more is
\* represented by 2^24: it is only ever compared with, or added to, positions
\* in streams that are shorter than that.
from_be_bytes(b) ==
  IF b[1] > 0 THEN 16777216 ELSE b[2] * 65536 + b[3] * 256 + b[4]

Slice(b, from, to) == SubSeq(b, from + 1, to)

\* String::from_utf8 succeeds exactly on well-formed UTF-8
RECURSIVE IsUtf8(_)
IsUtf8(b) ==
  IF b = <<>> THEN TRUE
  ELSE LET h == Head(b)
           cont(i) == Len(b) >= i /\ b[i] >= 128 /\ b[i] <= 191
       IN  IF h < 128 THEN IsUtf8(Tail(b))
           ELSE IF h >= 194 /\ h <= 223
             THEN cont(2) /\ IsUtf8(SubSeq(b, 3, Len(b)))
           ELSE IF h >= 224 /\ h <= 239
             THEN /\ cont(2) /\ cont(3)
                  /\ (h = 224 => b[2] >= 160)
                  /\ (h = 237 => b[2] <= 159)
                  /\ IsUtf8(SubSeq(b, 4, Len(b)))
           ELSE IF h >= 240 /\ h <= 244
             THEN /\ cont(2) /\ cont(3) /\ cont(4)
                  /\ (h = 240 => b[2] >= 144)
                  /\ (h = 244 => b[2] <= 143)
                  /\ IsUtf8(SubSeq(b, 5, Len(b)))
           ELSE FALSE

\* ---------------------------------------------------------------- Checksum
digest_size(checksum) ==
  CASE checksum = NoChecksum -> 0
    [] checksum = Sha256 -> 32
    [] checksum = XxHash3 -> 8

\* fault: a selector that is not known is read as NoChecksum
from_u8_or_default(discriminant) ==
  IF discriminant \in Checksums THEN Some(discriminant) ELSE Some(NoChecksum)

from_u8(discriminant) ==
  IF discriminant \in Checksums THEN Some(discriminant) ELSE None

\* fault: a digest that depends on the length of the input only
hash_of_length(checksum, bytes) ==
  [i \in 1..digest_size(checksum) |-> (Len(bytes) + i) % 256]

\* The digest functions are abstracted by functions of the same output size
\* in which every byte of the digest depends on every byte of the input: the
\* odd bytes on their sum, so that no change of a single byte of the input
\* leaves the digest as it was, the even bytes on their order and number too.
hash(checksum, bytes) ==
  CASE checksum = NoChecksum -> <<>>
    [] checksum = Sha256 ->
         LET sum == SumBytes(bytes)
             mix == MixBytes(bytes, 1) + 7 * Len(bytes)
         IN  [i \in 1..32 |-> ((IF i % 2 = 1 THEN sum ELSE sum + mix) + 31 * i) % 256]
    [] checksum = XxHash3 ->
         LET sum == 3 * SumBytes(bytes)
             mix == MixBytes(bytes, 2) + Len(bytes)
         IN  [i \in 1..8 |-> ((IF i % 2 = 1 THEN sum ELSE sum + mix) + 17 * i) % 256]

\* ----------------------------------------------------------------- Options
OptionsRec(checksum, size) == [checksum |-> checksum, checksum_size |-> size]

\* fault: the defaults of the latest version, whatever the magic
default_for_latest(magic) == OptionsRec(Some(NoChecksum), None)

default_for_version(magic) ==
  IF magic = ESZIP_V2_MAGIC \/ magic = ESZIP_V2_1_MAGIC
    THEN OptionsRec(Some(Sha256), None)
    ELSE OptionsRec(Some(NoChecksum), None)

OptionsDefault == default_for_version(LATEST_VERSION)

checksum_size(opts) ==
  IF IsSome(opts.checksum_size) THEN opts.checksum_size
  ELSE IF opts.checksum = None THEN None
  ELSE Some(digest_size(Unwrap(opts.checksum)))

\* ------------------------------------------------------- EszipV2SourceSlot
Pending(offset, length) ==
  [state |-> "Pending", offset |-> offset, length |-> length, wakers |-> <<>>]
Ready(bytes) == [state |-> "Ready", bytes |-> bytes]
\* fault: a take that leaves an emptied Ready slot behind
Emptied == [state |-> "Ready", bytes |-> <<>>]
Taken == [state |-> "Taken"]

\* ----------------------------------------------------------- EszipV2Module
Module(kind, source, source_map) ==
  [type |-> "Module", kind |-> kind, source |-> source, source_map |-> source_map]
Redirect(target) == [type |-> "Redirect", target |-> target]

\* ------------------------------------ LinkedHashMap<String, EszipV2Module>
\* The map is the sequence of its (key, value) pairs in iteration order.
Entry(k, v) == [key |-> k, val |-> v]

keys(m) == [i \in 1..Len(m) |-> m[i].key]

contains_key(m, k) == \E i \in 1..Len(m) : m[i].key = k

IndexOf(m, k) == CHOOSE i \in 1..Len(m) : m[i].key = k

get(m, k) == m[IndexOf(m, k)].val

Remove(m, k) == SelectSeq(m, LAMBDA e : e.key # k)

\* insert: a new key is appended; an existing key gets the new value and is
\* moved to the back
insert(m, k, v) == Append(Remove(m, k), Entry(k, v))

\* fault: the entry is moved to the back
to_back(m, k) ==
  IF contains_key(m, k) THEN Remove(m, k) \o <<m[IndexOf(m, k)]>> ELSE m

\* to_front: moves an existing entry to the front, the others keep their order
to_front(m, k) ==
  IF contains_key(m, k) THEN <<m[IndexOf(m, k)]>> \o Remove(m, k) ELSE m

\* get_mut(k) followed by an assignment to the value
set_val(m, k, v) == [i \in 1..Len(m) |-> IF m[i].key = k THEN Entry(k, v) ELSE m[i]]

\* -------------------------------------------------------------- from_graph
\* The module graph is the input of from_graph: its roots, its redirects (a
\* map sorted by key) and its module slots.  A slot is a Js module (with the
\* transpiler's output for it, None when parsing or emitting fails), a Json
\* module, an External/Npm/Node module or a load error; a specifier without
\* slot is missing.
SA == <<97>>
SB == <<98>>
SC == <<99>>
SD == <<100>>
Specifiers == {SA, SB, SC}

B1 == <<1>>
B2 == <<2, 3>>
M1 == <<9>>

Dep(code, is_dynamic) == [code |-> code, is_dynamic |-> is_dynamic]

JsModule(specifier, media_type, source, emit, dependencies) ==
  [variant |-> "Js", specifier |-> specifier, media_type |-> media_type,
   source |-> source, emit |-> emit, dependencies |-> dependencies]
JsonModule(specifier, source) ==
  [variant |-> "Json", specifier |-> specifier, source |-> source]
ExternalModule(specifier) == [variant |-> "External", specifier |-> specifier]
ErrSlot == [variant |-> "Err"]

Emit(source, source_map) == [source |-> source, source_map |-> source_map]

\* ModuleGraph::resolve: follows the graph's redirects
RECURSIVE graph_resolve(_, _, _)
graph_resolve(graph, specifier, fuel) ==
  LET hit == {i \in 1..Len(graph.redirects) : graph.redirects[i][1] = specifier}
  IN  IF hit = {} \/ fuel = 0 THEN specifier
      ELSE graph_resolve(graph, graph.redirects[CHOOSE i \in hit : TRUE][2], fuel - 1)

\* fault: a slot that holds a load error reads as a module that is absent
try_get_absent(graph, specifier) ==
  LET s == graph_resolve(graph, specifier, Len(graph.redirects))
  IN  IF s \notin DOMAIN graph.slots \/ graph.slots[s].variant = "Err"
        THEN [tag |-> "OkNone"]
        ELSE [tag |-> "OkSome", module |-> graph.slots[s]]

\* ModuleGraph::try_get: Ok(Some(module)), Ok(None) or Err
try_get(graph, specifier) ==
  LET s == graph_resolve(graph, specifier, Len(graph.redirects))
  IN  IF s \notin DOMAIN graph.slots THEN [tag |-> "OkNone"]
      ELSE IF graph.slots[s].variant = "Err" THEN [tag |-> "Err"]
      ELSE [tag |-> "OkSome", module |-> graph.slots[s]]

\* Url::scheme() of a specifier: the specifiers that start with a slash
\* stand for file: URLs, their bytes after it for the path
is_file(url) == url # <<>> /\ Head(url) = 47

\* fault: the base is cut off a specifier of any scheme that has its length
specifier_key_any(base, target) ==
  IF Len(target) > Len(base) THEN SubSeq(target, Len(base) + 1, Len(target))
  ELSE target

\* EszipRelativeFileBaseUrl::specifier_key: a file: specifier below the
\* base (a directory, its path ends with a slash) is made relative to it;
\* for every other one Url::make_relative gives None or a path that starts
\* with "../" and the specifier stays as it is
BaseUrl_specifier_key(base, target) ==
  IF ~is_file(target) THEN target
  ELSE IF Len(target) > Len(base) /\ SubSeq(target, 1, Len(base)) = base
    THEN SubSeq(target, Len(base) + 1, Len(target))
    ELSE target

resolve_specifier_key(specifier, relative_file_base) ==
  IF relative_file_base # None
    THEN BaseUrl_specifier_key(Unwrap(relative_file_base), specifier)
    ELSE specifier

Transpiled == {"Jsx", "TypeScript", "Mts", "Tsx", "Dts", "Dmts"}

RECURSIVE visit_module(_, _, _, _, _)
RECURSIVE visit_deps(_, _, _, _)
visit_module(graph, modules, specifier, is_dynamic, relative_file_base) ==
  LET got == try_get(graph, specifier) IN
  IF got.tag = "OkNone" THEN [ok |-> FALSE, modules |-> modules]
  ELSE IF got.tag = "Err"
    THEN [ok |-> is_dynamic, modules |-> modules]
  ELSE
    LET module == got.module
        specifier_key == resolve_specifier_key(module.specifier, relative_file_base)
    IN
    IF contains_key(modules, specifier_key) THEN [ok |-> TRUE, modules |-> modules]
    ELSE IF module.variant = "Js" THEN
      IF module.media_type \in {"JavaScript", "Mjs"} THEN
        visit_deps(graph,
                   insert(modules, specifier_key,
                          Module(JavaScript, Ready(module.source), Ready(<<>>))),
                   module.dependencies, relative_file_base)
      ELSE IF module.media_type \in Transpiled THEN
        IF module.emit = None THEN [ok |-> FALSE, modules |-> modules]
        ELSE
          LET emit == Unwrap(module.emit)
              source_map == IF emit.source_map = None THEN <<>>
                            ELSE Unwrap(emit.source_map)
          IN visit_deps(graph,
                        insert(modules, specifier_key,
                               Module(JavaScript, Ready(emit.source), Ready(source_map))),
                        module.dependencies, relative_file_base)
      ELSE [ok |-> FALSE, modules |-> modules]
    ELSE IF module.variant = "Json" THEN
      [ok |-> TRUE,
       modules |-> insert(modules, specifier_key,
                          Module(Json, Ready(module.source), Ready(<<>>)))]
    ELSE [ok |-> TRUE, modules |-> modules]

\* "now walk the code dependencies": stops at the first error
visit_deps(graph, modules, deps, relative_file_base) ==
  IF deps = <<>> THEN [ok |-> TRUE, modules |-> modules]
  ELSE
    LET dep == Head(deps)
        r == IF dep.code = None THEN [ok |-> TRUE, modules |-> modules]
             ELSE visit_module(graph, modules, Unwrap(dep.code), dep.is_dynamic,
                               relative_file_base)
    IN IF r.ok THEN visit_deps(graph, r.modules, Tail(deps), relative_file_base) ELSE r

RECURSIVE visit_roots(_, _, _, _)
visit_roots(graph, modules, roots, relative_file_base) ==
  IF roots = <<>> THEN [ok |-> TRUE, modules |-> modules]
  ELSE LET r == visit_module(graph, modules, Head(roots), FALSE, relative_file_base)
       IN IF r.ok THEN visit_roots(graph, r.modules, Tail(roots), relative_file_base)
          ELSE r

\* fault: the redirect entries are put in front of the modules
insert_redirects_first(modules, redirects, relative_file_base) ==
  [i \in 1..Len(redirects) |->
     Entry(resolve_specifier_key(redirects[i][1], relative_file_base),
           Redirect(redirects[i][2]))] \o modules

RECURSIVE insert_redirects(_, _, _)
insert_redirects(modules, redirects, relative_file_base) ==
  IF redirects = <<>> THEN modules
  ELSE insert_redirects(
         insert(modules, resolve_specifier_key(Head(redirects)[1], relative_file_base),
                Redirect(Head(redirects)[2])),
         Tail(redirects), relative_file_base)

FromGraphOptions(graph, relative_file_base) ==
  [graph |-> graph, relative_file_base |-> relative_file_base]

\* the archive once the roots were visited
from_visited(opts, r) ==
  IF ~r.ok THEN [ok |-> FALSE]
  ELSE [ok |-> TRUE,
        modules |-> insert_redirects(r.modules, opts.graph.redirects,
                                     opts.relative_file_base),
        npm_snapshot |-> None,
        options |-> OptionsDefault]

\* Ok(archive) or Err
from_graph(opts) ==
  from_visited(opts, visit_roots(opts.graph, <<>>, opts.graph.roots,
                                 opts.relative_file_base))

\* the graphs the builder is run on
GraphEmpty == [roots |-> <<>>, redirects |-> <<>>, slots |-> <<>>]

GraphRedirect ==
  [roots |-> <<SA>>,
   redirects |-> << <<SC, SB>> >>,
   slots |-> (SA :> JsModule(SA, "JavaScript", B1, None, <<Dep(Some(SC), FALSE)>>)
              @@ SB :> JsModule(SB, "TypeScript", B2, Some(Emit(B2, Some(M1))), <<>>))]

GraphDynamic ==
  [roots |-> <<SA>>,
   redirects |-> <<>>,
   slots |-> (SA :> JsModule(SA, "TypeScript", B1, Some(Emit(B1, None)),
                             <<Dep(Some(SD), TRUE), Dep(Some(SB), FALSE), Dep(None, FALSE)>>)
              @@ SB :> JsonModule(SB, B2)
              @@ SD :> ErrSlot)]

GraphMissing ==
  [roots |-> <<SA>>,
   redirects |-> <<>>,
   slots |-> (SA :> JsModule(SA, "JavaScript", B1, None, <<Dep(Some(SD), TRUE)>>))]

Graphs == {GraphEmpty, GraphRedirect, GraphDynamic, GraphMissing}

\* ------------------------------------------------------------ npm snapshot
\* A snapshot is its list of packages (id, map dependency name -> id) and
\* the map root requirement -> id; maps are sets of <<key, value>> pairs.
\* SerializedNpmResolutionSnapshotPackage: dist stands for the fields that the
\* archive does not store (system, dist, optional_dependencies, bin, scripts)
Pkg(id, dependencies, dist) == [id |-> id, dependencies |-> dependencies, dist |-> dist]
\* Default::default()
DistDefault == <<>>
\* the dist of a package that was resolved from a registry
DistTarball == <<116>>

PkgP == <<112, 64, 49>>
PkgQ == <<113, 64, 49>>
ReqP == <<112>>
ReqQ == <<113>>

SnapshotEmpty == [packages |-> <<>>, root_packages |-> {}]
SnapshotTwo ==
  [packages |-> << Pkg(PkgP, {<<ReqQ, PkgQ>>}, DistDefault), Pkg(PkgQ, {}, DistDefault) >>,
   root_packages |-> {<<ReqP, PkgP>>, <<ReqQ, PkgQ>>}]
SnapshotDist ==
  [packages |-> << Pkg(PkgQ, {}, DistTarball) >>, root_packages |-> {<<ReqQ, PkgQ>>}]
Snapshots == {SnapshotEmpty, SnapshotTwo, SnapshotDist}

\* NpmPackageId::from_serialized accepts "name@version"
IsPackageId(b) ==
  IsUtf8(b) /\ \E i \in 2..(Len(b) - 1) : b[i] = 64
\* PackageReq::from_str accepts a non-empty name with an optional requirement
IsPackageReq(b) == IsUtf8(b) /\ b # <<>> /\ b[1] # 64

RECURSIVE LexLess(_, _)
LexLess(a, b) ==
  IF b = <<>> THEN FALSE
  ELSE IF a = <<>> THEN TRUE
  ELSE IF Head(a) # Head(b) THEN Head(a) < Head(b)
  ELSE LexLess(Tail(a), Tail(b))

PairLess(x, y) == LexLess(x[1], y[1]) \/ (x[1] = y[1] /\ LexLess(x[2], y[2]))

\* Vec::sort of the pairs of a map
RECURSIVE sort(_)
sort(pairs) ==
  IF pairs = {} THEN <<>>
  ELSE LET least == CHOOSE x \in pairs : \A y \in pairs \ {x} : PairLess(x, y)
       IN  <<least>> \o sort(pairs \ {least})

\* ----------------------------------------------------------- into_bytes
append_string(bytes, string) == bytes \o to_be_bytes(Len(string)) \o string

\* fault: only a Pending slot panics, a Taken one reads as no bytes
bytes_panics_pending(slot) == slot.state = "Pending"

\* EszipV2SourceSlot::bytes panics unless the slot is Ready
bytes_panics(slot) == slot.state # "Ready"

\* EszipV2SourceSlot::bytes where it returns: the bytes of the slot
slot_bytes(slot) == IF slot.state = "Ready" THEN slot.bytes ELSE <<>>

\* no call of bytes() in the loop of into_bytes panics
AllReady(modules) ==
  \A i \in 1..Len(modules) :
    modules[i].val.type = "Module" =>
      /\ ~bytes_panics(modules[i].val.source)
      /\ ~bytes_panics(modules[i].val.source_map)

\* fault: every element is recorded at the start of its region
len_of_empty(bytes) == 0

\* sources.len(), source_maps.len(): the bytes written to the region so far
region_len(bytes) == Len(bytes)

\* the loop over modules.iter(): header records, sources and source maps
RECURSIVE write_modules(_, _, _)
write_modules(modules, checksum, acc) ==
  IF modules = <<>> THEN acc
  ELSE
    LET specifier == Head(modules).key
        module == Head(modules).val
        h0 == append_string(acc.modules_header, specifier)
    IN
    IF module.type = "Module" THEN
      LET source_bytes == slot_bytes(module.source)
          source_length == Len(source_bytes)
          source_offset == region_len(acc.sources)
          source_map_bytes == slot_bytes(module.source_map)
          source_map_length == Len(source_map_bytes)
          source_map_offset == region_len(acc.source_maps)
          h1 == h0 \o <<HeaderFrameKind_Module>>
          h2 == IF source_length > 0
                  THEN h1 \o to_be_bytes(source_offset) \o to_be_bytes(source_length)
                  ELSE h1 \o to_be_bytes(0) \o to_be_bytes(0)
          h3 == IF source_map_length > 0
                  THEN h2 \o to_be_bytes(source_map_offset)
                          \o to_be_bytes(source_map_length)
                  ELSE h2 \o to_be_bytes(0) \o to_be_bytes(0)
      IN write_modules(Tail(modules), checksum,
           [modules_header |-> h3 \o <<module.kind>>,
            sources |-> IF source_length > 0
                          THEN acc.sources \o source_bytes \o hash(checksum, source_bytes)
                          ELSE acc.sources,
            source_maps |-> IF source_map_length > 0
                          THEN acc.source_maps \o source_map_bytes
                                 \o hash(checksum, source_map_bytes)
                          ELSE acc.source_maps])
    ELSE
      write_modules(Tail(modules), checksum,
           [acc EXCEPT !.modules_header =
               h0 \o <<HeaderFrameKind_Redirect>> \o to_be_bytes(Len(module.target))
                  \o module.target])

\* ids_to_eszip_ids: position of a package id in the snapshot (a later
\* package with the same id wins)
ids_to_eszip_ids(packages, id) ==
  (CHOOSE i \in 1..Len(packages) :
      /\ packages[i].id = id
      /\ \A j \in 1..Len(packages) : packages[j].id = id => j <= i) - 1

RECURSIVE write_pairs(_, _, _, _)
write_pairs(bytes, pairs, packages, frame) ==
  IF pairs = <<>> THEN bytes
  ELSE write_pairs(
         append_string(bytes, Head(pairs)[1]) \o frame
           \o to_be_bytes(ids_to_eszip_ids(packages, Head(pairs)[2])),
         Tail(pairs), packages, frame)

RECURSIVE write_packages(_, _, _)
write_packages(bytes, rest, packages) ==
  IF rest = <<>> THEN bytes
  ELSE write_packages(
         write_pairs(append_string(bytes, Head(rest).id)
                       \o to_be_bytes(Cardinality(Head(rest).dependencies)),
                     sort(Head(rest).dependencies), packages, <<>>),
         Tail(rest), packages)

\* into_bytes panics when the checksum function is unknown, when a slot is
\* not Ready and (with debug assertions) when the digest size was customised
into_bytes_panics(eszip, debug_assertions) ==
  \/ eszip.options.checksum = None
  \/ checksum_size(eszip.options) = None
  \/ /\ debug_assertions
     /\ Unwrap(checksum_size(eszip.options)) # digest_size(Unwrap(eszip.options.checksum))
  \/ ~AllReady(eszip.modules)

into_bytes(eszip) ==
  LET checksum == Unwrap(eszip.options.checksum)
      size == Unwrap(checksum_size(eszip.options))
      options_body == <<0, checksum>> \o <<1, size>>
      options_header == LATEST_VERSION \o to_be_bytes(Len(options_body))
                          \o options_body \o hash(checksum, options_body)
      written == write_modules(eszip.modules, checksum,
                   [modules_header |-> <<>>, sources |-> <<>>, source_maps |-> <<>>])
      snapshot == IF eszip.npm_snapshot = None THEN SnapshotEmpty
                  ELSE Unwrap(eszip.npm_snapshot)
      modules_header == write_pairs(written.modules_header, sort(snapshot.root_packages),
                                    snapshot.packages, <<HeaderFrameKind_NpmSpecifier>>)
      npm_bytes == write_packages(<<>>, snapshot.packages, snapshot.packages)
  IN  options_header
        \o to_be_bytes(Len(modules_header)) \o modules_header
        \o hash(checksum, modules_header)
        \o to_be_bytes(Len(npm_bytes)) \o npm_bytes \o hash(checksum, npm_bytes)
        \o to_be_bytes(Len(written.sources)) \o written.sources
        \o to_be_bytes(Len(written.source_maps)) \o written.source_maps

EszipV2(modules, npm_snapshot, options) ==
  [modules |-> modules, npm_snapshot |-> npm_snapshot, options |-> options]

\* ------------------------------------------------------------------ Section
\* A reader is the stream and the number of bytes already consumed.
ParseErr(kind, arg) == [ok |-> FALSE, err |-> [kind |-> kind, arg |-> arg]]
IoErr == ParseErr("Io", <<>>)

\* Section(bytes, options): body followed by the digest
Section(bytes, options) == [bytes |-> bytes, options |-> options]

total_len(section) == Len(section.bytes)
content_len(section) == total_len(section) - Unwrap(checksum_size(section.options))
content(section) == Slice(section.bytes, 0, content_len(section))
checksum_hash(section) ==
  Slice(section.bytes, content_len(section), total_len(section))

\* fault: the digest is not compared
is_checksum_ignored(section) == TRUE

is_checksum_valid(section) ==
  IF section.options.checksum = None THEN TRUE
  ELSE hash(Unwrap(section.options.checksum), content(section)) = checksum_hash(section)

\* Section::read_with_size: reads len + checksum_size bytes (read_exact)
read_with_size(stream, pos, options, len) ==
  LET n == len + Unwrap(checksum_size(options)) IN
  IF pos + n > Len(stream) THEN IoErr
  ELSE [ok |-> TRUE, section |-> Section(Slice(stream, pos, pos + n), options),
        pos |-> pos + n]

\* read_u32
read_u32(stream, pos) ==
  IF pos + 4 > Len(stream) THEN IoErr
  ELSE [ok |-> TRUE, value |-> from_be_bytes(Slice(stream, pos, pos + 4)), pos |-> pos + 4]

\* Section::read: a u32 length, then the section
read(stream, pos, options) ==
  LET len == read_u32(stream, pos) IN
  IF ~len.ok THEN IoErr ELSE read_with_size(stream, len.pos, options, len.value)

\* --------------------------------------------------------- parse_with_magic
has_magic(buffer) ==
  /\ Len(buffer) >= 8
  /\ \/ Slice(buffer, 0, 8) = ESZIP_V2_MAGIC
     \/ Slice(buffer, 0, 8) = ESZIP_V2_1_MAGIC
     \/ Slice(buffer, 0, 8) = ESZIP_V2_2_MAGIC

\* fault: an option that is not known is taken for the digest size
read_options_strict(body, options) ==
  LET chunks(option) == {i \in 1..(Len(body) \div 2) : body[2 * i - 1] = option}
      other == {i \in 1..(Len(body) \div 2) : body[2 * i - 1] # 0}
      last(set) == CHOOSE i \in set : \A j \in set : j <= i
  IN  [checksum |->
         IF chunks(0) = {} THEN options.checksum ELSE from_u8(body[2 * last(chunks(0))]),
       checksum_size |->
         IF other = {} THEN options.checksum_size ELSE Some(body[2 * last(other)])]

\* the loop over options_header.content().chunks(2): every chunk assigns the
\* field its option byte names, so each field ends with the value of the last
\* chunk that names it, or keeps its default when no chunk does
read_options(body, options) ==
  LET chunks(option) == {i \in 1..(Len(body) \div 2) : body[2 * i - 1] = option}
      last(option) == CHOOSE i \in chunks(option) : \A j \in chunks(option) : j <= i
  IN  [checksum |->
         IF chunks(0) = {} THEN options.checksum ELSE from_u8(body[2 * last(0)]),
       checksum_size |->
         IF chunks(1) = {} THEN options.checksum_size ELSE Some(body[2 * last(1)])]

\* the options section of a V2.2 archive, Ok(options, reader) or an error, in
\* three steps.  Last: the section read again, now followed by its digest
reread_options(options, again) ==
  IF ~again.ok THEN again
  ELSE IF ~is_checksum_valid(again.section)
    THEN ParseErr("InvalidV22OptionsHeaderHash", <<>>)
  ELSE [ok |-> TRUE, options |-> options, pos |-> again.pos]

\* second: the options are known after the loop over the chunks
check_options(stream, pos0, first, options) ==
  IF checksum_size(options) = None THEN ParseErr("InvalidV22OptionsHeader", <<2>>)
  ELSE IF Unwrap(checksum_size(options)) >= 1
    THEN reread_options(options,
           read_with_size(stream, pos0 + 4, options, content_len(first.section)))
  ELSE [ok |-> TRUE, options |-> options, pos |-> first.pos]

\* first: the section was read with pre_options, which carry no digest
options_header(stream, pos0, defaults, first) ==
  IF ~first.ok THEN first
  ELSE IF content_len(first.section) % 2 # 0
    THEN ParseErr("InvalidV22OptionsHeader", <<1>>)
  ELSE check_options(stream, pos0, first, read_options(content(first.section), defaults))

parse_options(stream, pos0, defaults) ==
  options_header(stream, pos0, defaults,
                 read(stream, pos0, OptionsRec(Some(NoChecksum), None)))

\* HashMap::insert on a map kept as a set of <<key, value>> pairs
map_insert(map, k, v) == {x \in map : x[1] # k} \cup {<<k, v>>}

\* fault: every pointer gives a Pending slot
slot_pending(offset, len) == Pending(offset, len)

slot_of(offset, len) ==
  IF offset = 0 /\ len = 0 THEN Ready(<<>>) ELSE Pending(offset, len)

\* the loop over the records of the module table
RECURSIVE parse_table(_, _, _, _, _)
parse_table(body, read0, modules, npm_specifiers, supports_npm) ==
  LET n == Len(body)
      u32(at) == from_be_bytes(Slice(body, at, at + 4))
  IN
  IF read0 >= n THEN [ok |-> TRUE, modules |-> modules, npm_specifiers |-> npm_specifiers]
  ELSE IF read0 + 4 > n THEN ParseErr("InvalidV2Header", <<1>>)
  ELSE
    LET specifier_len == u32(read0)
        r1 == read0 + 4
    IN
    IF r1 + specifier_len > n THEN ParseErr("InvalidV2Header", <<2>>)
    ELSE
      LET specifier == Slice(body, r1, r1 + specifier_len)
          r2 == r1 + specifier_len
      IN
      IF ~IsUtf8(specifier) THEN ParseErr("InvalidV2Specifier", <<r2>>)
      ELSE IF r2 + 1 > n THEN ParseErr("InvalidV2Header", <<3>>)
      ELSE
        LET entry_kind == body[r2 + 1]
            r3 == r2 + 1
        IN
        IF entry_kind = 0 THEN
          IF r3 + 4 > n THEN ParseErr("InvalidV2Header", <<4>>)
          ELSE IF r3 + 8 > n THEN ParseErr("InvalidV2Header", <<5>>)
          ELSE IF r3 + 12 > n THEN ParseErr("InvalidV2Header", <<6>>)
          ELSE IF r3 + 16 > n THEN ParseErr("InvalidV2Header", <<7>>)
          ELSE IF r3 + 17 > n THEN ParseErr("InvalidV2Header", <<8>>)
          ELSE
            LET source_offset == u32(r3)
                source_len == u32(r3 + 4)
                source_map_offset == u32(r3 + 8)
                source_map_len == u32(r3 + 12)
                kind == body[r3 + 17]
            IN
            IF kind \notin {JavaScript, Json, Jsonc, OpaqueData}
              THEN ParseErr("InvalidV2ModuleKind", <<kind, r3 + 17>>)
            ELSE parse_table(body, r3 + 17,
                   insert(modules, specifier,
                          Module(kind, slot_of(source_offset, source_len),
                                 slot_of(source_map_offset, source_map_len))),
                   npm_specifiers, supports_npm)
        ELSE IF entry_kind = 1 THEN
          IF r3 + 4 > n THEN ParseErr("InvalidV2Header", <<9>>)
          ELSE
            LET target_len == u32(r3)
                r4 == r3 + 4
            IN
            IF r4 + target_len > n THEN ParseErr("InvalidV2Header", <<10>>)
            ELSE IF ~IsUtf8(Slice(body, r4, r4 + target_len))
              THEN ParseErr("InvalidV2Specifier", <<r4 + target_len>>)
            ELSE parse_table(body, r4 + target_len,
                   insert(modules, specifier, Redirect(Slice(body, r4, r4 + target_len))),
                   npm_specifiers, supports_npm)
        ELSE IF entry_kind = 2 /\ supports_npm THEN
          IF r3 + 4 > n THEN ParseErr("InvalidV2Header", <<11>>)
          ELSE parse_table(body, r3 + 4, modules,
                           map_insert(npm_specifiers, specifier, u32(r3)), supports_npm)
        ELSE ParseErr("InvalidV2EntryKind", <<entry_kind, r3>>)

\* --------------------------------------------------------- read_npm_section
\* parse_string on the bytes from position at: Ok(string, next position)
parse_string(bytes, at) ==
  IF at + 4 > Len(bytes) THEN [ok |-> FALSE]
  ELSE LET size == from_be_bytes(Slice(bytes, at, at + 4)) IN
       IF at + 4 + size > Len(bytes) THEN [ok |-> FALSE]
       ELSE IF ~IsUtf8(Slice(bytes, at + 4, at + 4 + size)) THEN [ok |-> FALSE]
       ELSE [ok |-> TRUE, text |-> Slice(bytes, at + 4, at + 4 + size),
             at |-> at + 4 + size]

parse_u32(bytes, at) ==
  IF at + 4 > Len(bytes) THEN [ok |-> FALSE]
  ELSE [ok |-> TRUE, value |-> from_be_bytes(Slice(bytes, at, at + 4)), at |-> at + 4]

\* the loop of EszipNpmModule::parse over the dependencies of a package
RECURSIVE parse_deps(_, _, _, _)
parse_deps(bytes, at, left, deps) ==
  IF left = 0 THEN [ok |-> TRUE, deps |-> deps, at |-> at]
  ELSE LET name == parse_string(bytes, at) IN
       IF ~name.ok THEN [ok |-> FALSE]
       ELSE LET index == parse_u32(bytes, name.at) IN
            IF ~index.ok THEN [ok |-> FALSE]
            ELSE parse_deps(bytes, index.at, left - 1,
                            map_insert(deps, name.text, index.value))

EszipNpmModule_parse(bytes, at) ==
  LET name == parse_string(bytes, at) IN
  IF ~name.ok THEN [ok |-> FALSE]
  ELSE LET dep_size == parse_u32(bytes, name.at) IN
       IF ~dep_size.ok THEN [ok |-> FALSE]
       ELSE LET deps == parse_deps(bytes, dep_size.at, dep_size.value, {}) IN
            IF ~deps.ok THEN [ok |-> FALSE]
            ELSE [ok |-> TRUE, at |-> deps.at,
                  module |-> [name |-> name.text, dependencies |-> deps.deps]]

RECURSIVE parse_packages(_, _, _)
parse_packages(bytes, at, packages) ==
  IF at >= Len(bytes) THEN [ok |-> TRUE, packages |-> packages]
  ELSE LET result == EszipNpmModule_parse(bytes, at) IN
       IF ~result.ok THEN ParseErr("InvalidV2NpmPackageOffset", <<at>>)
       ELSE parse_packages(bytes, result.at, Append(packages, result.module))

\* read_npm_section, Ok(Option<snapshot>, reader) or an error, in three
\* steps.  Last: the packages are validated and the snapshot is rebuilt
build_snapshot(npm_specifiers, pos, packages) ==
  LET count == Len(packages)
      bad_ids == {i \in 1..count : ~IsPackageId(packages[i].name)}
      bad_deps == {i \in 1..count :
                     \E d \in packages[i].dependencies : d[2] >= count}
      first(set) == CHOOSE i \in set : \A j \in set : i <= j
  IN
  IF bad_ids # {} THEN ParseErr("InvalidV2NpmPackage", packages[first(bad_ids)].name)
  ELSE IF bad_deps # {}
    THEN ParseErr("InvalidV2NpmPackage", packages[first(bad_deps)].name)
  ELSE IF \E r \in npm_specifiers : r[2] >= count \/ ~IsPackageReq(r[1])
    THEN ParseErr("InvalidV2NpmPackageReq", <<>>)
  ELSE
    [ok |-> TRUE, pos |-> pos,
     npm_snapshot |-> Some(
       [packages |->
          [i \in 1..count |->
             Pkg(packages[i].name,
                 {<<d[1], packages[d[2] + 1].name>> : d \in packages[i].dependencies},
                 DistDefault)],
        root_packages |->
          {<<r[1], packages[r[2] + 1].name>> : r \in npm_specifiers}])]

\* fault: the packages are taken as they were parsed, no index is looked at
check_packages_unchecked(npm_specifiers, pos, parsed) ==
  IF ~parsed.ok THEN parsed
  ELSE [ok |-> TRUE, pos |-> pos,
        npm_snapshot |-> Some(
          [packages |-> [i \in 1..Len(parsed.packages) |->
                           Pkg(parsed.packages[i].name, {}, DistDefault)],
           root_packages |-> {}])]

\* second: the loop of EszipNpmModule::parse over the section has ended
check_packages(npm_specifiers, pos, parsed) ==
  IF ~parsed.ok THEN parsed ELSE build_snapshot(npm_specifiers, pos, parsed.packages)

\* fault: the digest of the npm section is not compared
npm_section_unverified(npm_specifiers, snapshot) ==
  IF ~snapshot.ok THEN snapshot
  ELSE IF content(snapshot.section) = <<>>
    THEN [ok |-> TRUE, npm_snapshot |-> None, pos |-> snapshot.pos]
  ELSE check_packages(npm_specifiers, snapshot.pos,
                      parse_packages(content(snapshot.section), 0, <<>>))

\* first: the section was read
npm_section(npm_specifiers, snapshot) ==
  IF ~snapshot.ok THEN snapshot
  ELSE IF ~is_checksum_valid(snapshot.section)
    THEN ParseErr("InvalidV2NpmSnapshotHash", <<>>)
  ELSE IF content(snapshot.section) = <<>>
    THEN [ok |-> TRUE, npm_snapshot |-> None, pos |-> snapshot.pos]
  ELSE check_packages(npm_specifiers, snapshot.pos,
                      parse_packages(content(snapshot.section), 0, <<>>))

read_npm_section(stream, pos, options, npm_specifiers) ==
  npm_section(npm_specifiers, read(stream, pos, options))

\* source_offsets / source_map_offsets: offset -> (length, specifier) of the
\* Pending slots, collected in map order (a later entry with the same offset
\* replaces the earlier one)
RECURSIVE collect_offsets(_, _, _)
collect_offsets(modules, field, acc) ==
  IF modules = <<>> THEN acc
  ELSE LET m == Head(modules).val
           slot == IF field = "source" THEN m.source ELSE m.source_map
       IN collect_offsets(Tail(modules), field,
            IF m.type = "Module" /\ slot.state = "Pending"
              THEN map_insert(acc, slot.offset, <<slot.length, Head(modules).key>>)
              ELSE acc)

\* parse_with_magic, Ok(archive, continuation future) or an error, in the
\* steps of the code.  Last: the npm section was read
header_done(options, modules, npm) ==
  IF ~npm.ok THEN npm
  ELSE [ok |-> TRUE,
        eszip |-> EszipV2(modules, npm.npm_snapshot, options),
        source_offsets |-> collect_offsets(modules, "source", {}),
        source_map_offsets |-> collect_offsets(modules, "source_map", {}),
        pos |-> npm.pos]

\* the module table was parsed
table_done(stream, supports_npm, options, pos, table) ==
  IF ~table.ok THEN table
  ELSE header_done(options, table.modules,
         IF supports_npm
           THEN read_npm_section(stream, pos, options, table.npm_specifiers)
           ELSE [ok |-> TRUE, npm_snapshot |-> None, pos |-> pos])

\* the modules header section was read
modules_header_read(stream, supports_npm, options, modules_header) ==
  IF ~modules_header.ok THEN modules_header
  ELSE IF ~is_checksum_valid(modules_header.section)
    THEN ParseErr("InvalidV2HeaderHash", <<>>)
  ELSE table_done(stream, supports_npm, options, modules_header.pos,
         parse_table(content(modules_header.section), 0, <<>>, {}, supports_npm))

\* the options are known
options_done(stream, supports_npm, opts) ==
  IF ~opts.ok THEN opts
  ELSE modules_header_read(stream, supports_npm, opts.options,
                           read(stream, opts.pos, opts.options))

parse_with_magic(stream, magic) ==
  options_done(stream, magic # ESZIP_V2_MAGIC,
    IF magic = ESZIP_V2_2_MAGIC
      THEN parse_options(stream, 8, default_for_version(magic))
      ELSE [ok |-> TRUE, options |-> default_for_version(magic), pos |-> 8])

\* EszipV2::parse: reads the magic
parse(stream) ==
  IF Len(stream) < 8 THEN IoErr
  ELSE IF ~has_magic(Slice(stream, 0, 8)) THEN ParseErr("InvalidV2", <<>>)
  ELSE parse_with_magic(stream, Slice(stream, 0, 8))

\* ------------------------------------------------------------------ lookup
\* EszipV2::lookup: follows redirects with a visited set.  The result is
\* None or Some(handle); hops counts the Redirect entries followed.
Handle(specifier, kind) == [specifier |-> specifier, kind |-> kind]

RECURSIVE lookup_loop(_, _, _, _)
lookup_loop(modules, specifier, visited, hops) ==
  IF ~contains_key(modules, specifier) THEN [module |-> None, hops |-> hops]
  ELSE LET module == get(modules, specifier) IN
       IF module.type = "Module"
         THEN [module |-> Some(Handle(specifier, module.kind)), hops |-> hops]
       ELSE IF module.target \in visited \cup {specifier}
         THEN [module |-> None, hops |-> hops + 1]
       ELSE lookup_loop(modules, module.target, visited \cup {specifier}, hops + 1)

\* fault: the entry stored under the specifier is returned as it is
lookup_entry(modules, specifier) ==
  [module |-> IF contains_key(modules, specifier)
                THEN Some(Handle(specifier,
                       IF get(modules, specifier).type = "Module"
                         THEN get(modules, specifier).kind ELSE JavaScript))
                ELSE None,
   hops |-> 0]

lookup(modules, specifier) == lookup_loop(modules, specifier, {}, 0)

\* fault: get_module without the Jsonc filter
get_any(modules, specifier) == lookup(modules, specifier).module

get_module(modules, specifier) ==
  LET module == lookup(modules, specifier).module IN
  IF module = None THEN None
  ELSE IF Unwrap(module).kind = Jsonc THEN None
  ELSE module

get_import_map(modules, specifier) ==
  LET import_map == lookup(modules, specifier).module IN
  IF import_map = None THEN None
  ELSE IF Unwrap(import_map).kind = JavaScript THEN None
  ELSE import_map

specifiers(modules) == keys(modules)

\* fault: the items are what get_module finds
into_iter_get_module(modules) ==
  LET found == SelectSeq(specifiers(modules),
                         LAMBDA k : get_module(modules, k) # None)
  IN  [i \in 1..Len(found) |-> <<found[i], Unwrap(get_module(modules, found[i]))>>]

\* IntoIterator for EszipV2: one (specifier, module) item for every specifier
\* whose lookup finds a module; the others are skipped
into_iter(modules) ==
  LET found == SelectSeq(specifiers(modules),
                         LAMBDA k : lookup(modules, k).module # None)
  IN  [i \in 1..Len(found) |-> <<found[i], Unwrap(lookup(modules, found[i]).module)>>]

\* ------------------------------------------------------------------ EszipV1
\* ModuleInfo; the map of a V1 archive is kept as a sequence of entries whose
\* order means nothing
V1Source(source) == [type |-> "Source", source |-> source]
V1Redirect(target) == [type |-> "Redirect", target |-> target]

\* Url::parse(specifier).ok(): a URL has a scheme followed by a colon.  The
\* specifiers of the model are URLs in their normal form already.
Url_parse(specifier) ==
  IF \E i \in 2..Len(specifier) : specifier[i] = 58 THEN Some(specifier) ELSE None

UA == <<97, 58>>
UB == <<98, 58>>
UC == <<99, 58>>
UD == <<100, 58>>

\* the loop of EszipV1::get_module
RECURSIVE v1_get_module_loop(_, _, _, _)
v1_get_module_loop(modules, specifier, visited, hops) ==
  IF ~contains_key(modules, specifier) THEN [module |-> None, hops |-> hops]
  ELSE LET module == get(modules, specifier) IN
       IF module.type = "Source"
         THEN [module |-> Some(Handle(specifier, JavaScript)), hops |-> hops]
       ELSE IF module.target \in visited \cup {specifier}
         THEN [module |-> None, hops |-> hops + 1]
       ELSE v1_get_module_loop(modules, module.target, visited \cup {specifier},
                               hops + 1)

v1_get_module(modules, specifier) ==
  IF Url_parse(specifier) = None THEN [module |-> None, hops |-> 0]
  ELSE v1_get_module_loop(modules, Unwrap(Url_parse(specifier)), {}, 0)

\* V1 archives: a redirect to a source, a cycle, a self-redirect, a redirect
\* to an absent target
V1Archives ==
  { << Entry(UA, V1Redirect(UB)), Entry(UB, V1Redirect(UC)), Entry(UC, V1Source(B1)) >>,
    << Entry(UA, V1Redirect(UB)), Entry(UB, V1Redirect(UA)), Entry(UC, V1Redirect(UC)),
       Entry(UD, V1Redirect(<<101, 58>>)) >> }

\* ------------------------------------------------------------ V1 documents
\* EszipV1::into_bytes and EszipV1::parse convert with serde_json.  The
\* model writes the document in one canonical form and reads that form
\* only: no white space, the fields in the order of the struct, strings
\* without escapes.  The JSON texts:
\*   {"version":  ,"modules":{  {"Redirect":  {"Source":{"source":
\*   ,"transpiled":  null  ,"content_type":null,"deps":[]}}
ESZIP_V1_GRAPH_VERSION == 1

JsonVersion == <<123, 34, 118, 101, 114, 115, 105, 111, 110, 34, 58>>
JsonModules == <<44, 34, 109, 111, 100, 117, 108, 101, 115, 34, 58, 123>>
JsonRedirect == <<123, 34, 82, 101, 100, 105, 114, 101, 99, 116, 34, 58>>
JsonSource == <<123, 34, 83, 111, 117, 114, 99, 101, 34, 58, 123, 34, 115, 111, 117, 114, 99, 101, 34, 58>>
JsonTranspiled == <<44, 34, 116, 114, 97, 110, 115, 112, 105, 108, 101, 100, 34, 58>>
JsonNull == <<110, 117, 108, 108>>
JsonSourceEnd == <<44, 34, 99, 111, 110, 116, 101, 110, 116, 95, 116, 121, 112, 101, 34, 58, 110, 117, 108, 108, 44, 34, 100, 101, 112, 115, 34, 58, 91, 93, 125, 125>>
Quote == <<34>>
Colon == <<58>>
Comma == <<44>>
CloseBrace == <<125>>

\* ModuleInfo::Source(ModuleSource { source, transpiled, .. })
ModuleSource(source, transpiled) ==
  [type |-> "Source", source |-> source, transpiled |-> transpiled]

EszipV1(version, modules) == [version |-> version, modules |-> modules]

write_str(text) == Quote \o text \o Quote

write_info(info) ==
  IF info.type = "Redirect"
    THEN JsonRedirect \o write_str(info.target) \o CloseBrace
    ELSE JsonSource \o write_str(info.source) \o JsonTranspiled
           \o (IF info.transpiled = None THEN JsonNull
               ELSE write_str(Unwrap(info.transpiled)))
           \o JsonSourceEnd

RECURSIVE write_infos(_)
write_infos(modules) ==
  IF modules = <<>> THEN <<>>
  ELSE write_str(Head(modules).key) \o Colon \o write_info(Head(modules).val)
         \o (IF Tail(modules) = <<>> THEN <<>> ELSE Comma \o write_infos(Tail(modules)))

\* EszipV1::into_bytes: serde_json::to_vec(&self).unwrap()
v1_into_bytes(eszip) ==
  JsonVersion \o <<48 + eszip.version>> \o JsonModules \o write_infos(eszip.modules)
    \o CloseBrace \o CloseBrace

\* the text starts at position at of the bytes
StartsWith(bytes, at, text) ==
  /\ at + Len(text) <= Len(bytes)
  /\ Slice(bytes, at, at + Len(text)) = text

\* a string: Ok(text, next position) or not a string
read_str(bytes, at) ==
  IF ~StartsWith(bytes, at, Quote) THEN [ok |-> FALSE]
  ELSE LET ends == {j \in (at + 1)..(Len(bytes) - 1) : bytes[j + 1] = Quote[1]} IN
       IF ends = {} THEN [ok |-> FALSE]
       ELSE LET end == CHOOSE j \in ends : \A k \in ends : j <= k IN
            IF \E j \in (at + 1)..(end - 1) : bytes[j + 1] < 32 \/ bytes[j + 1] = 92
              THEN [ok |-> FALSE]
              ELSE [ok |-> TRUE, text |-> Slice(bytes, at + 1, end), at |-> end + 1]

\* a ModuleInfo: Ok(info, next position) or not one
read_transpiled(bytes, source, at) ==
  IF StartsWith(bytes, at, JsonNull \o JsonSourceEnd)
    THEN [ok |-> TRUE, info |-> ModuleSource(source, None),
          at |-> at + Len(JsonNull \o JsonSourceEnd)]
  ELSE LET transpiled == read_str(bytes, at) IN
       IF ~transpiled.ok THEN [ok |-> FALSE]
       ELSE IF ~StartsWith(bytes, transpiled.at, JsonSourceEnd) THEN [ok |-> FALSE]
       ELSE [ok |-> TRUE, info |-> ModuleSource(source, Some(transpiled.text)),
             at |-> transpiled.at + Len(JsonSourceEnd)]

read_source(bytes, source) ==
  IF ~source.ok THEN [ok |-> FALSE]
  ELSE IF ~StartsWith(bytes, source.at, JsonTranspiled) THEN [ok |-> FALSE]
  ELSE read_transpiled(bytes, source.text, source.at + Len(JsonTranspiled))

read_redirect(bytes, target) ==
  IF ~target.ok THEN [ok |-> FALSE]
  ELSE IF Url_parse(target.text) = None THEN [ok |-> FALSE]
  ELSE IF ~StartsWith(bytes, target.at, CloseBrace) THEN [ok |-> FALSE]
  ELSE [ok |-> TRUE, info |-> V1Redirect(Unwrap(Url_parse(target.text))),
        at |-> target.at + 1]

read_info(bytes, at) ==
  IF StartsWith(bytes, at, JsonRedirect)
    THEN read_redirect(bytes, read_str(bytes, at + Len(JsonRedirect)))
  ELSE IF StartsWith(bytes, at, JsonSource)
    THEN read_source(bytes, read_str(bytes, at + Len(JsonSource)))
  ELSE [ok |-> FALSE]

\* the entries of the modules object from position at on; the map keeps the
\* last value of a key
RECURSIVE read_infos(_, _, _)
read_entry(bytes, modules, key, info) ==
  IF ~info.ok THEN [ok |-> FALSE]
  ELSE IF StartsWith(bytes, info.at, Comma)
    THEN read_infos(bytes, info.at + 1, insert(modules, key, info.info))
  ELSE IF StartsWith(bytes, info.at, CloseBrace \o CloseBrace)
         /\ info.at + 2 = Len(bytes)
    THEN [ok |-> TRUE, modules |-> insert(modules, key, info.info)]
  ELSE [ok |-> FALSE]

read_infos(bytes, at, modules) ==
  LET key == read_str(bytes, at) IN
  IF ~key.ok THEN [ok |-> FALSE]
  ELSE IF Url_parse(key.text) = None THEN [ok |-> FALSE]
  ELSE IF ~StartsWith(bytes, key.at, Colon) THEN [ok |-> FALSE]
  ELSE read_entry(bytes, modules, Unwrap(Url_parse(key.text)),
                  read_info(bytes, key.at + 1))

\* serde_json::from_slice(data): Ok(version, modules) or not a document
from_slice(data) ==
  LET at == Len(JsonVersion) + 1 + Len(JsonModules) IN
  IF ~StartsWith(data, 0, JsonVersion) THEN [ok |-> FALSE]
  ELSE IF ~StartsWith(data, Len(JsonVersion) + 1, JsonModules) THEN [ok |-> FALSE]
  ELSE IF data[Len(JsonVersion) + 1] \notin 48..57 THEN [ok |-> FALSE]
  ELSE IF StartsWith(data, at, CloseBrace \o CloseBrace) /\ at + 2 = Len(data)
    THEN [ok |-> TRUE, version |-> data[Len(JsonVersion) + 1] - 48, modules |-> <<>>]
  ELSE LET infos == read_infos(data, at, <<>>) IN
       IF ~infos.ok THEN [ok |-> FALSE]
       ELSE [ok |-> TRUE, version |-> data[Len(JsonVersion) + 1] - 48,
             modules |-> infos.modules]

\* EszipV1::parse
v1_parse(data) ==
  LET eszip == from_slice(data) IN
  IF ~eszip.ok THEN ParseErr("InvalidV1Json", <<>>)
  ELSE IF eszip.version # ESZIP_V1_GRAPH_VERSION
    THEN ParseErr("InvalidV1Version", <<eszip.version>>)
  ELSE [ok |-> TRUE, eszip |-> EszipV1(eszip.version, eszip.modules)]

\* the bytes that EszipV1::get_module_source and take return
source_of(info) ==
  IF info.transpiled = None THEN info.source ELSE Unwrap(info.transpiled)

\* EszipV1::get_module_source: modules.get(specifier).unwrap() panics when
\* the specifier is not a key, and so does a Redirect entry
v1_get_module_source(modules, specifier) ==
  IF Url_parse(specifier) = None THEN [panic |-> FALSE, ret |-> None]
  ELSE IF ~contains_key(modules, Unwrap(Url_parse(specifier)))
    THEN [panic |-> TRUE, ret |-> None]
  ELSE IF get(modules, Unwrap(Url_parse(specifier))).type = "Redirect"
    THEN [panic |-> TRUE, ret |-> None]
  ELSE [panic |-> FALSE,
        ret |-> Some(source_of(get(modules, Unwrap(Url_parse(specifier)))))]

\* EszipV1::take: modules.remove(specifier)? returns None when the specifier
\* is not a key; the entry is removed before a Redirect entry panics
v1_take(modules, specifier) ==
  IF Url_parse(specifier) = None
    THEN [panic |-> FALSE, ret |-> None, modules |-> modules]
  ELSE IF ~contains_key(modules, Unwrap(Url_parse(specifier)))
    THEN [panic |-> FALSE, ret |-> None, modules |-> modules]
  ELSE IF get(modules, Unwrap(Url_parse(specifier))).type = "Redirect"
    THEN [panic |-> TRUE, ret |-> None,
          modules |-> Remove(modules, Unwrap(Url_parse(specifier)))]
  ELSE [panic |-> FALSE,
        ret |-> Some(source_of(get(modules, Unwrap(Url_parse(specifier))))),
        modules |-> Remove(modules, Unwrap(Url_parse(specifier)))]

\* --------------------------------------------------------- archive methods
\* fault: the import map is stored whether or not the specifier exists
put_import_map(modules, kind, specifier, source) ==
  to_front(insert(modules, specifier, Module(kind, Ready(source), Ready(<<>>))),
           specifier)

add_import_map(modules, kind, specifier, source) ==
  IF contains_key(modules, specifier) THEN to_front(modules, specifier)
  ELSE to_front(insert(modules, specifier, Module(kind, Ready(source), Ready(<<>>))),
                specifier)

\* fault: the data of the new entry is left to be loaded
add_opaque_pending(modules, specifier, data) ==
  insert(modules, specifier, Module(OpaqueData, Pending(0, Len(data)), Ready(<<>>)))

add_opaque_data(modules, specifier, data) ==
  insert(modules, specifier, Module(OpaqueData, Ready(data), Ready(<<>>)))

add_npm_snapshot(npm_snapshot, snapshot) ==
  IF snapshot.packages # <<>> THEN Some(snapshot) ELSE npm_snapshot

\* fault: the snapshot is returned and kept
clone_npm_snapshot(npm_snapshot) == [ret |-> npm_snapshot, npm_snapshot |-> npm_snapshot]

\* self.npm_snapshot.take(): the value returned and the value left
take_npm_snapshot(npm_snapshot) == [ret |-> npm_snapshot, npm_snapshot |-> None]

set_checksum(options, checksum) == [options EXCEPT !.checksum = Some(checksum)]

should_be_checksumed(options) == options.checksum # Some(NoChecksum)
is_checksumed(options) == should_be_checksumed(options) /\ options.checksum # None

\* ============================================================ state machine
VARIABLES
  phase,      \* "built", "written", "parsed", "parsed_v1", "iterated",
              \* "failed" or "panicked"
  eszip,      \* the EszipV2 value: modules, npm_snapshot, options
  stream,     \* the bytes returned by into_bytes / handed to parse
  corrupted,  \* the byte of the stream that was changed in transit: its
              \* position (0 when none was) and the value it had
  fut,        \* the continuation future returned by parse
  tasks,      \* per consumer: its last lookup (the specifier asked, the number
              \* of redirects followed), its module handle and its call
  woken,      \* per consumer: number of times one of its wakers was woken
  ops,        \* number of builder operations performed
  orig,       \* history: the archive built from a graph that into_bytes
              \* serialised, until the archive parsed from its bytes is
              \* modified by the builder
  last,       \* history: the builder method called last, if add_import_map
  hist,       \* history: per specifier, the takes that returned Some
  err         \* the error returned by parse, if any

vars == <<phase, eszip, stream, corrupted, fut, tasks, woken, ops, orig, last, hist, err>>

Consumers == 1..NumConsumers
AllSpecifiers == Specifiers \cup {SD}

EszipDefault == EszipV2(<<>>, None, OptionsDefault)

NoFuture ==
  [state |-> "none", pos |-> 0, read |-> 0, len |-> 0, options |-> OptionsDefault,
   source_offsets |-> {}, source_map_offsets |-> {}, err |-> [kind |-> "", arg |-> <<>>]]

NoTask ==
  [pc |-> "idle", asked |-> <<>>, hops |-> 0, specifier |-> <<>>, kind |-> 0,
   op |-> "", ret |-> None]

\* the calls of the npm snapshot methods: the snapshot with packages that
\* add_npm_snapshot was called with last, whether take_npm_snapshot was
\* called since then never (0), once (1) or more often (2), and what the
\* last take_npm_snapshot returned
NoNpmCalls == [added |-> None, takes |-> 0, returned |-> None]

\* specifiers on which take_source (resp. take_source_map) returned Some at
\* least once and at least twice since the entry was created, and those on
\* which take_source ever returned Some; the calls of the npm snapshot
\* methods; the number of bytes that the first read of Eszip::parse
\* delivered; the items that into_iter returned
NoHist ==
  [source |-> {}, source_twice |-> {}, source_map |-> {}, source_map_twice |-> {},
   ever |-> {}, npm |-> NoNpmCalls, first_read |-> 0, items |-> <<>>]

NotCorrupted == [at |-> 0, was |-> 0]
NoLast == [op |-> "", specifier |-> <<>>, existed |-> FALSE]
NoErr == [kind |-> "", arg |-> <<>>]

\* archives that only a stream can bring: redirect cycles, a self-redirect,
\* a redirect to an absent target, a chain of redirects, a Jsonc entry
StreamCycle ==
  EszipV2(<< Entry(SA, Redirect(SB)), Entry(SB, Redirect(SA)), Entry(SC, Redirect(SC)) >>,
          None, OptionsRec(Some(Sha256), None))
StreamChain ==
  EszipV2(<< Entry(SA, Redirect(SB)), Entry(SB, Redirect(SC)),
             Entry(SC, Module(Jsonc, Ready(B2), Ready(M1))),
             Entry(SD, Redirect(<<101>>)) >>,
          None, OptionsRec(Some(XxHash3), None))
StreamArchives == {StreamCycle, StreamChain}

InitBuilt(graph) ==
  /\ from_graph(FromGraphOptions(graph, None)).ok
  /\ phase = "built"
  /\ eszip = EszipV2(from_graph(FromGraphOptions(graph, None)).modules, from_graph(FromGraphOptions(graph, None)).npm_snapshot,
                     from_graph(FromGraphOptions(graph, None)).options)
  /\ stream = <<>>
  /\ orig = None

InitStream(archive) ==
  /\ phase = "written"
  /\ eszip = EszipDefault
  /\ stream = into_bytes(archive)
  /\ orig = None

Init ==
  /\ \/ \E graph \in Graphs : InitBuilt(graph)
     \/ \E archive \in StreamArchives : InitStream(archive)
  /\ corrupted = NotCorrupted
  /\ fut = NoFuture
  /\ tasks = [c \in Consumers |-> NoTask]
  /\ woken = [c \in Consumers |-> 0]
  /\ ops = 0
  /\ last = NoLast
  /\ hist = NoHist
  /\ err = NoErr

\* a panic while the lock is held poisons the mutex: lock().unwrap() panics
Poisoned == fut.state = "panic"
Alive == phase \in {"built", "parsed"} /\ ~Poisoned

\* ------------------------------------------------------- builder operations
Building == Alive /\ ops < MaxOps

AddImportMap(kind, specifier, source) ==
  /\ Building
  /\ eszip' = [eszip EXCEPT !.modules = add_import_map(@, kind, specifier, source)]
  /\ last' = [op |-> "add_import_map", specifier |-> specifier,
              existed |-> contains_key(eszip.modules, specifier)]
  /\ ops' = ops + 1
  /\ orig' = None
  /\ UNCHANGED <<phase, stream, corrupted, fut, tasks, woken, hist, err>>

AddOpaqueData(specifier, data) ==
  /\ Building
  /\ eszip' = [eszip EXCEPT !.modules = add_opaque_data(@, specifier, data)]
  /\ hist' = [hist EXCEPT !.source = @ \ {specifier},
                           !.source_twice = @ \ {specifier},
                           !.source_map = @ \ {specifier},
                           !.source_map_twice = @ \ {specifier}]
  /\ last' = NoLast
  /\ ops' = ops + 1
  /\ orig' = None
  /\ UNCHANGED <<phase, stream, corrupted, fut, tasks, woken, err>>

AddNpmSnapshot(snapshot) ==
  /\ Building
  /\ eszip' = [eszip EXCEPT !.npm_snapshot = add_npm_snapshot(@, snapshot)]
  /\ hist' = IF snapshot.packages = <<>> THEN hist
             ELSE [hist EXCEPT !.npm.added = Some(snapshot), !.npm.takes = 0]
  /\ last' = NoLast
  /\ ops' = ops + 1
  /\ orig' = None
  /\ UNCHANGED <<phase, stream, corrupted, fut, tasks, woken, err>>

TakeNpmSnapshot ==
  /\ Alive
  /\ eszip' = [eszip EXCEPT !.npm_snapshot = take_npm_snapshot(@).npm_snapshot]
  /\ hist' = [hist EXCEPT !.npm.takes = IF @ = 0 THEN 1 ELSE 2,
                          !.npm.returned = take_npm_snapshot(eszip.npm_snapshot).ret]
  /\ last' = NoLast
  /\ orig' = None
  /\ UNCHANGED <<phase, stream, corrupted, fut, tasks, woken, ops, err>>

SetChecksum(checksum) ==
  /\ Building
  /\ eszip' = [eszip EXCEPT !.options = set_checksum(@, checksum)]
  /\ last' = NoLast
  /\ ops' = ops + 1
  /\ orig' = None
  /\ UNCHANGED <<phase, stream, corrupted, fut, tasks, woken, hist, err>>

\* ----------------------------------------------------------------- consumers
\* A consumer obtains a handle (specifier, kind) from get_module or
\* get_import_map and calls source, take_source, source_map, take_source_map
\* on it.  Each action below is one critical section of the module map mutex.
CanLook(c) == Alive /\ tasks[c].pc \in {"idle", "handle", "done"}

Looked(c, op, asked, module) ==
  tasks' = [tasks EXCEPT ![c] =
    IF module = None
      THEN [NoTask EXCEPT !.op = op, !.asked = asked,
                          !.hops = lookup(eszip.modules, asked).hops]
      ELSE [NoTask EXCEPT !.pc = "handle", !.op = op, !.asked = asked,
                          !.hops = lookup(eszip.modules, asked).hops,
                          !.specifier = Unwrap(module).specifier,
                          !.kind = Unwrap(module).kind]]

GetModule(c, specifier) ==
  /\ CanLook(c)
  /\ Looked(c, "get_module", specifier, get_module(eszip.modules, specifier))
  /\ UNCHANGED <<phase, eszip, stream, corrupted, fut, woken, ops, orig, last, hist, err>>

GetImportMap(c, specifier) ==
  /\ CanLook(c)
  /\ Looked(c, "get_import_map", specifier, get_import_map(eszip.modules, specifier))
  /\ UNCHANGED <<phase, eszip, stream, corrupted, fut, woken, ops, orig, last, hist, err>>

\* the call op of consumer c is polled: for the first time or again
CanPoll(c, op) ==
  /\ Alive
  /\ \/ tasks[c].pc \in {"handle", "done"}
     \/ tasks[c].pc = "polling" /\ tasks[c].op = op

SlotOf(c, field) ==
  IF field = "source" THEN get(eszip.modules, tasks[c].specifier).source
  ELSE get(eszip.modules, tasks[c].specifier).source_map

SetSlot(modules, specifier, field, slot) ==
  set_val(modules, specifier,
          IF field = "source" THEN [get(modules, specifier) EXCEPT !.source = slot]
          ELSE [get(modules, specifier) EXCEPT !.source_map = slot])

\* fault: a poll of a Pending slot gives up and the call returns None
give_up(c, op, field) ==
  /\ UNCHANGED eszip
  /\ tasks' = [tasks EXCEPT ![c].pc = "done", ![c].op = op, ![c].ret = None]

\* wakers.push(cx.waker().clone()); Poll::Pending
Park(c, op, field) ==
  /\ Len(SlotOf(c, field).wakers) < MaxWakers
  /\ eszip' = [eszip EXCEPT !.modules =
                 SetSlot(@, tasks[c].specifier, field,
                         [SlotOf(c, field) EXCEPT !.wakers = Append(@, c)])]
  /\ tasks' = [tasks EXCEPT ![c].pc = "polling", ![c].op = op, ![c].ret = None]

Return(c, op, ret) ==
  tasks' = [tasks EXCEPT ![c].pc = "done", ![c].op = op, ![c].ret = ret]

get_module_source(c) ==
  /\ CanPoll(c, "source")
  /\ LET slot == SlotOf(c, "source") IN
     \/ slot.state = "Pending" /\ Park(c, "source", "source")
     \/ slot.state = "Ready" /\ Return(c, "source", Some(slot.bytes))
                             /\ UNCHANGED eszip
     \/ slot.state = "Taken" /\ Return(c, "source", None) /\ UNCHANGED eszip
  /\ UNCHANGED <<phase, stream, corrupted, fut, woken, ops, orig, last, hist, err>>

\* fault: take_source clones the bytes and leaves the slot Ready
clone_module_source(c) ==
  /\ CanPoll(c, "take_source")
  /\ LET slot == SlotOf(c, "source")
         s == tasks[c].specifier
     IN
     \/ slot.state = "Pending" /\ Park(c, "take_source", "source")
                               /\ UNCHANGED hist
     \/ /\ slot.state = "Ready"
        /\ UNCHANGED eszip
        /\ Return(c, "take_source", Some(slot.bytes))
        /\ hist' = [hist EXCEPT
                      !.source = @ \cup {s},
                      !.source_twice = IF s \in hist.source THEN @ \cup {s} ELSE @,
                      !.ever = @ \cup {s}]
     \/ slot.state = "Taken" /\ Return(c, "take_source", None)
                             /\ UNCHANGED <<eszip, hist>>
  /\ UNCHANGED <<phase, stream, corrupted, fut, woken, ops, orig, last, err>>

\* fault: take_source empties the source-map slot as well
take_module_both(c) ==
  /\ CanPoll(c, "take_source")
  /\ LET slot == SlotOf(c, "source")
         s == tasks[c].specifier
     IN
     \/ slot.state = "Pending" /\ Park(c, "take_source", "source")
                               /\ UNCHANGED hist
     \/ /\ slot.state = "Ready"
        /\ eszip' = [eszip EXCEPT !.modules =
                       SetSlot(SetSlot(@, s, "source", Taken), s, "source_map", Taken)]
        /\ Return(c, "take_source", Some(slot.bytes))
        /\ hist' = [hist EXCEPT
                      !.source = @ \cup {s},
                      !.source_twice = IF s \in hist.source THEN @ \cup {s} ELSE @,
                      !.ever = @ \cup {s}]
     \/ slot.state = "Taken" /\ Return(c, "take_source", None)
                             /\ UNCHANGED <<eszip, hist>>
  /\ UNCHANGED <<phase, stream, corrupted, fut, woken, ops, orig, last, err>>

take_module_source(c) ==
  /\ CanPoll(c, "take_source")
  /\ LET slot == SlotOf(c, "source")
         s == tasks[c].specifier
     IN
     \/ slot.state = "Pending" /\ Park(c, "take_source", "source")
                               /\ UNCHANGED hist
     \/ /\ slot.state = "Ready"
        /\ eszip' = [eszip EXCEPT !.modules = SetSlot(@, s, "source", Taken)]
        /\ Return(c, "take_source", Some(slot.bytes))
        /\ hist' = [hist EXCEPT
                      !.source = @ \cup {s},
                      !.source_twice = IF s \in hist.source THEN @ \cup {s} ELSE @,
                      !.ever = @ \cup {s}]
     \/ slot.state = "Taken" /\ Return(c, "take_source", None)
                             /\ UNCHANGED <<eszip, hist>>
  /\ UNCHANGED <<phase, stream, corrupted, fut, woken, ops, orig, last, err>>

get_module_source_map(c) ==
  /\ CanPoll(c, "source_map")
  /\ LET slot == SlotOf(c, "source_map") IN
     \/ slot.state = "Pending" /\ Park(c, "source_map", "source_map")
     \/ slot.state = "Ready" /\ Return(c, "source_map", Some(slot.bytes))
                             /\ UNCHANGED eszip
     \/ slot.state = "Taken" /\ Return(c, "source_map", None) /\ UNCHANGED eszip
  /\ UNCHANGED <<phase, stream, corrupted, fut, woken, ops, orig, last, hist, err>>

\* take_module_source_map, first critical section: the poll_fn
take_module_source_map(c) ==
  /\ CanPoll(c, "take_source_map")
  /\ LET slot == SlotOf(c, "source_map") IN
     \/ slot.state = "Pending" /\ Park(c, "take_source_map", "source_map")
     \/ /\ slot.state = "Ready"
        /\ tasks' = [tasks EXCEPT ![c].pc = "dropping", ![c].op = "take_source_map",
                                  ![c].ret = Some(slot.bytes)]
        /\ UNCHANGED eszip
     \/ /\ slot.state = "Taken"
        /\ tasks' = [tasks EXCEPT ![c].pc = "dropping", ![c].op = "take_source_map",
                                  ![c].ret = None]
        /\ UNCHANGED eszip
  /\ UNCHANGED <<phase, stream, corrupted, fut, woken, ops, orig, last, hist, err>>

\* take_module_source_map, second critical section: "Drop the source map
\* from memory", then the call returns what the poll_fn produced
drop_source_map(c) ==
  /\ Alive
  /\ tasks[c].pc = "dropping"
  /\ LET s == tasks[c].specifier IN
     /\ eszip' = [eszip EXCEPT !.modules = SetSlot(@, s, "source_map", Taken)]
     /\ hist' = IF tasks[c].ret = None THEN hist
                ELSE [hist EXCEPT
                       !.source_map = @ \cup {s},
                       !.source_map_twice =
                          IF s \in hist.source_map THEN @ \cup {s} ELSE @]
  /\ tasks' = [tasks EXCEPT ![c].pc = "done"]
  /\ UNCHANGED <<phase, stream, corrupted, fut, woken, ops, orig, last, err>>

\* ------------------------------------------------------ writing and parsing
\* into_bytes consumes the archive: it returns the stream or panics
IntoBytes(debug_assertions) ==
  /\ Alive
  /\ \A c \in Consumers : tasks[c].pc \in {"idle", "handle", "done"}
  /\ IF into_bytes_panics(eszip, debug_assertions)
       THEN /\ phase' = "panicked"
            /\ UNCHANGED <<stream, orig>>
       ELSE /\ phase' = "written"
            /\ stream' = into_bytes(eszip)
            /\ orig' = IF phase = "built" THEN Some(eszip) ELSE None
  /\ eszip' = EszipDefault
  /\ fut' = NoFuture
  /\ tasks' = [c \in Consumers |-> NoTask]
  /\ woken' = [c \in Consumers |-> 0]
  /\ last' = NoLast
  /\ hist' = NoHist
  /\ UNCHANGED <<corrupted, ops, err>>

\* into_iter(self): the archive is moved into the iteration, whose items
\* hold handles on its module map
IntoIter ==
  /\ Alive
  /\ phase' = "iterated"
  /\ hist' = [hist EXCEPT !.items = into_iter(eszip.modules)]
  /\ UNCHANGED <<eszip, stream, corrupted, fut, tasks, woken, ops, orig, last, err>>

\* the transport changes one byte of the stream to another value
Corrupt(i, value) ==
  /\ phase = "written"
  /\ corrupted = NotCorrupted
  /\ i \in 1..Len(stream)
  /\ value # stream[i]
  /\ stream' = [stream EXCEPT ![i] = value]
  /\ corrupted' = [at |-> i, was |-> stream[i]]
  /\ UNCHANGED <<phase, eszip, fut, tasks, woken, ops, orig, last, hist, err>>

\* EszipV2::parse returns the archive and the continuation future, or fails
ParseReturns(parsed) ==
  IF parsed.ok
    THEN /\ phase' = "parsed"
         /\ eszip' = parsed.eszip
         /\ fut' = [NoFuture EXCEPT !.state = "start", !.pos = parsed.pos,
                                    !.options = parsed.eszip.options,
                                    !.source_offsets = parsed.source_offsets,
                                    !.source_map_offsets = parsed.source_map_offsets]
         /\ err' = NoErr
    ELSE /\ phase' = "failed"
         /\ err' = parsed.err
         /\ UNCHANGED <<eszip, fut>>

Parse ==
  /\ phase = "written"
  /\ ParseReturns(parse(stream))
  /\ UNCHANGED <<stream, corrupted, tasks, woken, ops, orig, last, hist>>

\* Eszip::parse: one fill_buf, which is one read of the transport and
\* delivers the first bytes of the stream, then EszipV2::parse when the
\* buffer has a magic and read_to_end and EszipV1::parse when it has not
Eszip_parse(first) ==
  /\ phase = "written"
  /\ IF has_magic(Slice(stream, 0, first))
       THEN ParseReturns(parse(stream))
       ELSE LET v1 == v1_parse(stream) IN
            IF v1.ok
              THEN /\ phase' = "parsed_v1"
                   /\ eszip' = v1.eszip
                   /\ fut' = [NoFuture EXCEPT !.state = "ok"]
                   /\ err' = NoErr
              ELSE /\ phase' = "failed"
                   /\ err' = v1.err
                   /\ UNCHANGED <<eszip, fut>>
  /\ hist' = [hist EXCEPT !.first_read = first]
  /\ UNCHANGED <<stream, corrupted, tasks, woken, ops, orig, last>>

\* the V1 arms of Eszip::get_module, Module::source and Module::take_source;
\* each is one critical section of the mutex of the V1 module map, and a
\* panic inside it ends the run
CanCallV1(c, pcs) == phase = "parsed_v1" /\ tasks[c].pc \in pcs

Eszip_get_module(c, specifier) ==
  /\ CanCallV1(c, {"idle", "handle", "done"})
  /\ LET found == v1_get_module(eszip.modules, specifier) IN
     tasks' = [tasks EXCEPT ![c] =
       IF found.module = None
         THEN [NoTask EXCEPT !.op = "get_module", !.asked = specifier,
                             !.hops = found.hops]
         ELSE [NoTask EXCEPT !.pc = "handle", !.op = "get_module",
                             !.asked = specifier, !.hops = found.hops,
                             !.specifier = Unwrap(found.module).specifier,
                             !.kind = Unwrap(found.module).kind]]
  /\ UNCHANGED <<phase, eszip, stream, corrupted, fut, woken, ops, orig, last, hist, err>>

Panics(c, op) ==
  /\ phase' = "panicked"
  /\ tasks' = [tasks EXCEPT ![c].pc = "panicked", ![c].op = op, ![c].ret = None]

Module_source(c) ==
  /\ CanCallV1(c, {"handle", "done"})
  /\ IF v1_get_module_source(eszip.modules, tasks[c].specifier).panic
       THEN Panics(c, "source")
       ELSE /\ Return(c, "source",
                      v1_get_module_source(eszip.modules, tasks[c].specifier).ret)
            /\ UNCHANGED phase
  /\ UNCHANGED <<eszip, stream, corrupted, fut, woken, ops, orig, last, hist, err>>

Module_take_source(c) ==
  /\ CanCallV1(c, {"handle", "done"})
  /\ LET taken == v1_take(eszip.modules, tasks[c].specifier)
         s == tasks[c].specifier
     IN
     /\ eszip' = [eszip EXCEPT !.modules = taken.modules]
     /\ IF taken.panic THEN Panics(c, "take_source")
        ELSE Return(c, "take_source", taken.ret) /\ UNCHANGED phase
     /\ hist' = IF taken.ret = None THEN hist
                ELSE [hist EXCEPT
                        !.source = @ \cup {s},
                        !.source_twice = IF s \in hist.source THEN @ \cup {s} ELSE @,
                        !.ever = @ \cup {s}]
  /\ UNCHANGED <<stream, corrupted, fut, woken, ops, orig, last, err>>

\* ---------------------------------------------------- continuation future
FutErr(kind, arg) == [fut EXCEPT !.state = "err", !.err = [kind |-> kind, arg |-> arg]]

\* fault: the slot with the greatest offset is taken
OffsetsLast(map, at) == {x \in map : \A y \in map : y[1] <= x[1]}

\* HashMap::remove(&read)
OffsetsAt(map, at) == {x \in map : x[1] = at}

\* let sources_len = read_u32(&mut reader).await?
FutSourcesLen ==
  /\ phase = "parsed"
  /\ fut.state = "start"
  /\ LET len == read_u32(stream, fut.pos) IN
     fut' = IF ~len.ok THEN FutErr("Io", <<>>)
            ELSE [fut EXCEPT !.state = "sources", !.pos = len.pos,
                             !.len = len.value, !.read = 0]
  /\ UNCHANGED <<phase, eszip, stream, corrupted, tasks, woken, ops, orig, last, hist, err>>

\* let source_maps_len = read_u32(&mut reader).await?
FutSourceMapsLen ==
  /\ phase = "parsed"
  /\ fut.state = "sources"
  /\ fut.read >= fut.len
  /\ LET len == read_u32(stream, fut.pos) IN
     fut' = IF ~len.ok THEN FutErr("Io", <<>>)
            ELSE [fut EXCEPT !.state = "source_maps", !.pos = len.pos,
                             !.len = len.value, !.read = 0]
  /\ UNCHANGED <<phase, eszip, stream, corrupted, tasks, woken, ops, orig, last, hist, err>>

\* number of wakers of consumer c in a waker vector
RECURSIVE CountOf(_, _)
CountOf(wakers, c) ==
  IF wakers = <<>> THEN 0
  ELSE (IF Head(wakers) = c THEN 1 ELSE 0) + CountOf(Tail(wakers), c)

\* fault: only the first waker of the list is woken
wake_first(wakers) ==
  [c \in Consumers |->
     woken[c] + (IF wakers # <<>> /\ Head(wakers) = c THEN 1 ELSE 0)]

\* for w in wakers { w.wake() }
wake(wakers) == [c \in Consumers |-> woken[c] + CountOf(wakers, c)]

\* fault: the entry stays in the map of offsets
remove_none(map, found) == map

\* HashMap::remove(&read): the map without the entry that was found
remove_found(map, found) == map \ found

\* one iteration of a data region loop: field is "source" while the sources
\* region is read and "source_map" while the source maps region is read
FutElement(field, offsets) ==
  LET found == OffsetsAt(offsets, fut.read) IN
  IF found = {} THEN
    /\ fut' = FutErr("InvalidV2SourceOffset", <<fut.read>>)
    /\ UNCHANGED <<eszip, woken>>
  ELSE
    LET hit == CHOOSE x \in found : TRUE
        length == hit[2][1]
        specifier == hit[2][2]
        section == read_with_size(stream, fut.pos, fut.options, length)
    IN
    IF ~section.ok THEN
      /\ fut' = FutErr("Io", <<>>)
      /\ UNCHANGED <<eszip, woken>>
    ELSE IF ~is_checksum_valid(section.section) THEN
      /\ fut' = FutErr("InvalidV2SourceHash", specifier)
      /\ UNCHANGED <<eszip, woken>>
    ELSE
      LET module == get(eszip.modules, specifier)
          slot == IF field = "source" THEN module.source ELSE module.source_map
          next == [fut EXCEPT !.pos = section.pos,
                              !.read = @ + total_len(section.section),
                              !.source_offsets =
                                 IF field = "source" THEN remove_found(@, found) ELSE @,
                              !.source_map_offsets =
                                 IF field = "source_map" THEN remove_found(@, found) ELSE @]
      IN
      /\ eszip' = [eszip EXCEPT !.modules =
                     SetSlot(@, specifier, field, Ready(content(section.section)))]
      /\ IF slot.state = "Pending"
           THEN /\ fut' = next
                /\ woken' = wake(slot.wakers)
           ELSE \* panic!("already populated source slot"), lock held
                /\ fut' = [next EXCEPT !.state = "panic"]
                /\ UNCHANGED woken

FutSource ==
  /\ phase = "parsed"
  /\ ~Poisoned
  /\ fut.state = "sources"
  /\ fut.read < fut.len
  /\ FutElement("source", fut.source_offsets)
  /\ UNCHANGED <<phase, stream, corrupted, tasks, ops, orig, last, hist, err>>

FutSourceMap ==
  /\ phase = "parsed"
  /\ ~Poisoned
  /\ fut.state = "source_maps"
  /\ fut.read < fut.len
  /\ FutElement("source_map", fut.source_map_offsets)
  /\ UNCHANGED <<phase, stream, corrupted, tasks, ops, orig, last, hist, err>>

\* the continuation future is dropped before it has completed: its reader
\* and its offset maps are dropped with it and it is never polled again
FutDrop ==
  /\ phase = "parsed"
  /\ fut.state \in {"start", "sources", "source_maps"}
  /\ fut' = [fut EXCEPT !.state = "dropped"]
  /\ UNCHANGED <<phase, eszip, stream, corrupted, tasks, woken, ops, orig, last, hist, err>>

\* Ok(reader)
FutOk ==
  /\ phase = "parsed"
  /\ fut.state = "source_maps"
  /\ fut.read >= fut.len
  /\ fut' = [fut EXCEPT !.state = "ok"]
  /\ UNCHANGED <<phase, eszip, stream, corrupted, tasks, woken, ops, orig, last, hist, err>>

\* ---------------------------------------------------------- specifications
Kinds == {Json, Jsonc}
Datas == {<<>>, B2}

\* the owner of the archive: the consumer that also calls the builder
Owner == CHOOSE c \in Consumers : \A d \in Consumers : c <= d
\* the specifiers that consumers look up
LookupSpecifiers == {SA, SC, SD}

Builder ==
  \/ \E kind \in Kinds, specifier \in Specifiers : AddImportMap(kind, specifier, B1)
  \/ \E specifier \in Specifiers, data \in Datas : AddOpaqueData(specifier, data)
  \/ \E checksum \in Checksums : SetChecksum(checksum)

Continuation ==
  \/ FutSourcesLen
  \/ FutSource
  \/ FutSourceMapsLen
  \/ FutSourceMap
  \/ FutOk

Calls(c) ==
  \/ get_module_source(c)
  \/ take_module_source(c)
  \/ get_module_source_map(c)
  \/ take_module_source_map(c)
  \/ drop_source_map(c)

\* Spec: an archive is built from a graph, extended by the builder methods,
\* written by into_bytes, parsed again and loaded by the continuation.
Next ==
  \/ Builder
  \/ \E snapshot \in Snapshots : AddNpmSnapshot(snapshot)
  \/ TakeNpmSnapshot
  \/ \E debug_assertions \in BOOLEAN : IntoBytes(debug_assertions)
  \/ Parse
  \/ Continuation

Spec == Init /\ [][Next]_vars

\* SpecApi: a stream is parsed; while the continuation loads it the owner of
\* the archive looks modules up, reads and takes their sources and calls the
\* builder methods.
InitApi ==
  /\ \/ InitStream(EszipV2(from_graph(FromGraphOptions(GraphRedirect, None)).modules, None,
                           OptionsRec(Some(Sha256), None)))
     \/ \E archive \in StreamArchives : InitStream(archive)
  /\ corrupted = NotCorrupted
  /\ fut = NoFuture
  /\ tasks = [c \in Consumers |-> NoTask]
  /\ woken = [c \in Consumers |-> 0]
  /\ ops = 0
  /\ last = NoLast
  /\ hist = NoHist
  /\ err = NoErr

NextApi ==
  \/ Parse
  \/ Continuation
  \/ AddImportMap(Json, SB, B1)
  \/ AddOpaqueData(SB, B2)
  \/ SetChecksum(XxHash3)
  \/ \E specifier \in LookupSpecifiers : GetModule(Owner, specifier)
  \/ \E specifier \in LookupSpecifiers : GetImportMap(Owner, specifier)
  \/ Calls(Owner)

SpecApi == InitApi /\ [][NextApi]_vars

\* SpecLoad: a stream is parsed; the consumers, on their own threads, hold
\* handles and poll sources and source maps while the continuation runs.
InitLoad ==
  /\ InitStream(EszipV2(from_graph(FromGraphOptions(GraphRedirect, None)).modules, None,
                        OptionsRec(Some(XxHash3), None)))
  /\ corrupted = NotCorrupted
  /\ fut = NoFuture
  /\ tasks = [c \in Consumers |-> NoTask]
  /\ woken = [c \in Consumers |-> 0]
  /\ ops = 0
  /\ last = NoLast
  /\ hist = NoHist
  /\ err = NoErr

NextLoad ==
  \/ Parse
  \/ Continuation
  \/ \E c \in Consumers : GetModule(c, SC)
  \/ \E c \in Consumers : Calls(c)

SpecLoad == InitLoad /\ [][NextLoad]_vars

\* SpecFault: the stream written for a graph, under each checksum, reaches
\* the parser with one byte changed.
FaultArchives ==
  {EszipV2(from_graph(FromGraphOptions(graph, None)).modules, None, OptionsRec(Some(checksum), None)) :
     graph \in {GraphRedirect, GraphDynamic}, checksum \in Checksums}
  \cup {EszipV2(from_graph(FromGraphOptions(GraphDynamic, None)).modules, Some(SnapshotTwo),
                OptionsRec(Some(XxHash3), None))}

\* the values a changed byte takes: a known and an unknown checksum selector,
\* zero, and the values next to the byte's own
ChangedTo(byte) == {0, 2, 3, (byte + 1) % 256, (byte + 255) % 256}

InitFault ==
  /\ \E archive \in FaultArchives : InitStream(archive)
  /\ corrupted = NotCorrupted
  /\ fut = NoFuture
  /\ tasks = [c \in Consumers |-> NoTask]
  /\ woken = [c \in Consumers |-> 0]
  /\ ops = 0
  /\ last = NoLast
  /\ hist = NoHist
  /\ err = NoErr

NextFault ==
  \/ \E i \in 1..Len(stream) : \E value \in ChangedTo(stream[i]) : Corrupt(i, value)
  \/ Parse
  \/ Continuation

SpecFault == InitFault /\ [][NextFault]_vars

\* SpecCompat: streams of the older versions and streams whose options
\* section was replaced reach the parser; the archive is loaded, its checksum
\* is set and it is written again.
\* the stream with its options section (existing_options_size bytes after
\* the magic) replaced
replace_options(bytes, existing_options_size, options_section) ==
  Slice(bytes, 0, 8) \o options_section
    \o Slice(bytes, 8 + existing_options_size, Len(bytes))

\* the stream of an older version: another magic, no options section, the
\* Sha256 digests and, under the magic ESZIP_V2, no npm section.  It is cut
\* out of the stream that into_bytes writes with Sha256.
older_stream(bytes, magic) ==
  LET table == 8 + 4 + 4 + 32
      npm == table + 4 + from_be_bytes(Slice(bytes, table, table + 4)) + 32
      data == npm + 4 + from_be_bytes(Slice(bytes, npm, npm + 4)) + 32
  IN  IF magic = ESZIP_V2_MAGIC
        THEN magic \o Slice(bytes, table, npm) \o Slice(bytes, data, Len(bytes))
        ELSE magic \o Slice(bytes, table, Len(bytes))

WrittenPlain ==
  into_bytes(EszipV2(from_graph(FromGraphOptions(GraphRedirect, None)).modules, None,
                     OptionsRec(Some(NoChecksum), None)))
WrittenSha256 ==
  into_bytes(EszipV2(from_graph(FromGraphOptions(GraphRedirect, None)).modules, None,
                     OptionsRec(Some(Sha256), None)))

\* options sections: a selector that is not known with the digest size 32
\* and a digest, the same with 32 bytes that are no digest, no options, options that are not known, the digest size 0 alone, the digest size 8
\* alone with 8 bytes
UnknownSelector == to_be_bytes(4) \o <<0, 255, 1, 32>> \o hash(Sha256, <<0, 255, 1, 32>>)
UnknownUnsigned == to_be_bytes(4) \o <<0, 255, 1, 32>> \o [i \in 1..32 |-> 0]
NoOptions == to_be_bytes(0)
UnknownOptions == to_be_bytes(4) \o <<255, 255, 7, 1>>
SizeOnly == to_be_bytes(2) \o <<1, 0>>
SizeAlone == to_be_bytes(2) \o <<1, 8>> \o [i \in 1..8 |-> 0]

\* a stream of an older version with a changed byte in the module table
OlderDamaged ==
  LET bytes == older_stream(WrittenSha256, ESZIP_V2_1_MAGIC)
  IN  [bytes EXCEPT ![8 + 4 + 1] = (bytes[8 + 4 + 1] + 1) % 256]

CompatStreams ==
  { replace_options(WrittenSha256, 4 + 4 + 32, UnknownSelector),
    replace_options(WrittenSha256, 4 + 4 + 32, UnknownUnsigned),
    replace_options(WrittenPlain, 4 + 4, NoOptions),
    replace_options(WrittenPlain, 4 + 4, UnknownOptions),
    replace_options(WrittenPlain, 4 + 4, SizeOnly),
    replace_options(WrittenPlain, 4 + 4, SizeAlone),
    OlderDamaged,
    older_stream(WrittenSha256, ESZIP_V2_MAGIC),
    older_stream(WrittenSha256, ESZIP_V2_1_MAGIC),
    WrittenPlain }

InitCompat ==
  /\ \E bytes \in CompatStreams : stream = bytes
  /\ phase = "written"
  /\ eszip = EszipDefault
  /\ orig = None
  /\ corrupted = NotCorrupted
  /\ fut = NoFuture
  /\ tasks = [c \in Consumers |-> NoTask]
  /\ woken = [c \in Consumers |-> 0]
  /\ ops = 0
  /\ last = NoLast
  /\ hist = NoHist
  /\ err = NoErr

NextCompat ==
  \/ Parse
  \/ Continuation
  \/ \E checksum \in Checksums : SetChecksum(checksum)
  \/ \E debug_assertions \in BOOLEAN : IntoBytes(debug_assertions)

SpecCompat == InitCompat /\ [][NextCompat]_vars

\* SpecIter: an archive built from a graph or parsed from a stream, import
\* maps and opaque data added or not, is iterated.
NextIter ==
  \/ Builder
  \/ \E debug_assertions \in BOOLEAN : IntoBytes(debug_assertions)
  \/ Parse
  \/ Continuation
  \/ IntoIter

SpecIter == Init /\ [][NextIter]_vars

\* SpecV1: Eszip::parse on V1 documents, V2 streams and a stream shorter
\* than a magic, with a first read of any size up to MaxFirstRead or of the
\* whole stream; the consumers look up modules of the V1 archive and call
\* source and take_source on their handles.
TextX == <<120>>
TextY == <<121>>
TextZ == <<122>>

V1Modules ==
  << Entry(UA, V1Redirect(UB)),
     Entry(UB, ModuleSource(TextX, None)),
     Entry(UC, ModuleSource(TextY, Some(TextZ))) >>

V1Streams ==
  { v1_into_bytes(EszipV1(ESZIP_V1_GRAPH_VERSION, V1Modules)),
    v1_into_bytes(EszipV1(ESZIP_V1_GRAPH_VERSION + 1, V1Modules)),
    WrittenPlain,
    older_stream(WrittenSha256, ESZIP_V2_1_MAGIC),
    Slice(ESZIP_V2_2_MAGIC, 0, 4) }

FirstReads == {first \in 1..Len(stream) : first <= MaxFirstRead \/ first = Len(stream)}

InitV1 ==
  /\ \E bytes \in V1Streams : stream = bytes
  /\ phase = "written"
  /\ eszip = EszipDefault
  /\ orig = None
  /\ corrupted = NotCorrupted
  /\ fut = NoFuture
  /\ tasks = [c \in Consumers |-> NoTask]
  /\ woken = [c \in Consumers |-> 0]
  /\ ops = 0
  /\ last = NoLast
  /\ hist = NoHist
  /\ err = NoErr

NextV1 ==
  \/ \E first \in FirstReads : Eszip_parse(first)
  \/ Continuation
  \/ \E c \in Consumers, specifier \in {UA, UC, UD} : Eszip_get_module(c, specifier)
  \/ \E c \in Consumers : Module_source(c)
  \/ \E c \in Consumers : Module_take_source(c)

SpecV1 == InitV1 /\ [][NextV1]_vars

\* SpecOrder: streams with three modules are parsed and loaded while the
\* consumers poll.  In the second stream the pointers of the first two
\* records of the table are exchanged, so that the entry listed first has
\* the later offsets (the 16 pointer bytes of the first record follow the
\* magic, the options section of 4 + 4 bytes, the length of the table, the
\* length of the specifier, the specifier and the entry kind; a Module
\* record with a specifier of one byte has 4 + 1 + 1 + 16 + 1 bytes).
ThreeModules ==
  << Entry(SA, Module(JavaScript, Ready(B2), Ready(M1))),
     Entry(SB, Module(JavaScript, Ready(B1), Ready(<<>>))),
     Entry(SC, Module(Json, Ready(B2), Ready(M1))) >>

exchange_pointers(bytes) ==
  LET record == 4 + 1 + 1 + 16 + 1
      first == 8 + 4 + 4 + 4 + 4 + 1 + 1
  IN  [i \in 1..Len(bytes) |->
         IF i \in (first + 1)..(first + 16) THEN bytes[i + record]
         ELSE IF i \in (first + record + 1)..(first + record + 16) THEN bytes[i - record]
         ELSE bytes[i]]

OrderStreams ==
  { into_bytes(EszipV2(ThreeModules, None, OptionsRec(Some(XxHash3), None))),
    exchange_pointers(
      into_bytes(EszipV2(ThreeModules, None, OptionsRec(Some(NoChecksum), None)))) }

InitOrder ==
  /\ \E bytes \in OrderStreams : stream = bytes
  /\ phase = "written"
  /\ eszip = EszipDefault
  /\ orig = None
  /\ corrupted = NotCorrupted
  /\ fut = NoFuture
  /\ tasks = [c \in Consumers |-> NoTask]
  /\ woken = [c \in Consumers |-> 0]
  /\ ops = 0
  /\ last = NoLast
  /\ hist = NoHist
  /\ err = NoErr

NextOrder ==
  \/ Parse
  \/ Continuation
  \/ \E specifier \in {SA, SC} : GetModule(Owner, specifier)
  \/ Calls(Owner)

SpecOrder == InitOrder /\ [][NextOrder]_vars

\* SpecNpm: the streams written for an archive with an npm snapshot, under
\* each checksum, and the streams of the two older versions cut out of the
\* Sha256 one, reach the parser, with one byte changed or with none; the
\* snapshot is taken from the parsed archive while the continuation runs.
\* orig is the archive that was written.
NpmArchives ==
  {EszipV2(from_graph(FromGraphOptions(GraphDynamic, None)).modules, Some(snapshot),
           OptionsRec(Some(checksum), None)) :
     snapshot \in {SnapshotTwo, SnapshotDist}, checksum \in Checksums}

NpmVersions == {ESZIP_V2_MAGIC, ESZIP_V2_1_MAGIC, ESZIP_V2_2_MAGIC}

InitNpm ==
  /\ \E archive \in NpmArchives, magic \in NpmVersions :
        /\ magic # ESZIP_V2_2_MAGIC => archive.options.checksum = Some(Sha256)
        /\ stream = IF magic = ESZIP_V2_2_MAGIC THEN into_bytes(archive)
                    ELSE older_stream(into_bytes(archive), magic)
        /\ orig = Some(archive)
  /\ phase = "written"
  /\ eszip = EszipDefault
  /\ corrupted = NotCorrupted
  /\ fut = NoFuture
  /\ tasks = [c \in Consumers |-> NoTask]
  /\ woken = [c \in Consumers |-> 0]
  /\ ops = 0
  /\ last = NoLast
  /\ hist = NoHist
  /\ err = NoErr

NextNpm ==
  \/ \E i \in 1..Len(stream) : \E value \in ChangedTo(stream[i]) : Corrupt(i, value)
  \/ Parse
  \/ TakeNpmSnapshot
  \/ Continuation

SpecNpm == InitNpm /\ [][NextNpm]_vars

\* SpecForeign: streams with three modules that another writer produced are
\* parsed and loaded, or the continuation is dropped, while the consumers
\* poll source and take_source.  In the first stream the third module has the sources of the first
\* one and the data regions hold them once: both records point to offset 0.
\* In the second stream the data of the third module is absent from the data
\* regions and its record points behind their ends.  The third stream is the
\* one into_bytes writes with XxHash3, and the fourth is that stream with a
\* changed byte in the source of the second module.  (With NoChecksum the
\* table starts after the magic, the options section of 4 + 4 bytes and its
\* own length; a Module record with a specifier of one byte has
\* 4 + 1 + 1 + 16 + 1 bytes; the npm section is its length alone.)
without_third(bytes, source_offset, source_map_offset) ==
  LET record == 4 + 1 + 1 + 16 + 1
      third == 8 + 4 + 4 + 4 + 2 * record + 4 + 1 + 1
      sources == 8 + 4 + 4 + 4 + 3 * record + 4
      sources_len == from_be_bytes(Slice(bytes, sources, sources + 4))
      source_len == from_be_bytes(Slice(bytes, third + 4, third + 8))
      source_maps == sources + 4 + sources_len
      source_maps_len == from_be_bytes(Slice(bytes, source_maps, source_maps + 4))
      source_map_len == from_be_bytes(Slice(bytes, third + 12, third + 16))
  IN  Slice(bytes, 0, third)
        \o to_be_bytes(source_offset) \o to_be_bytes(source_len)
        \o to_be_bytes(source_map_offset) \o to_be_bytes(source_map_len)
        \o Slice(bytes, third + 16, sources)
        \o to_be_bytes(sources_len - source_len)
        \o Slice(bytes, sources + 4, sources + 4 + sources_len - source_len)
        \o to_be_bytes(source_maps_len - source_map_len)
        \o Slice(bytes, source_maps + 4, source_maps + 4 + source_maps_len - source_map_len)

ThreePlain == into_bytes(EszipV2(ThreeModules, None, OptionsRec(Some(NoChecksum), None)))
ThreeXxHash3 == into_bytes(EszipV2(ThreeModules, None, OptionsRec(Some(XxHash3), None)))

SharedPointers == without_third(ThreePlain, 0, 0)
AbsentPointers == without_third(ThreePlain, 3, 1)
DamagedSource ==
  LET at == 8 + (4 + 4 + 8) + (4 + 3 * (4 + 1 + 1 + 16 + 1) + 8) + (4 + 8) + 4 + (2 + 8) + 1
  IN  [ThreeXxHash3 EXCEPT ![at] = (@ + 1) % 256]

ForeignStreams == {SharedPointers, AbsentPointers, ThreeXxHash3, DamagedSource}

InitForeign ==
  /\ \E bytes \in ForeignStreams : stream = bytes
  /\ phase = "written"
  /\ eszip = EszipDefault
  /\ orig = None
  /\ corrupted = NotCorrupted
  /\ fut = NoFuture
  /\ tasks = [c \in Consumers |-> NoTask]
  /\ woken = [c \in Consumers |-> 0]
  /\ ops = 0
  /\ last = NoLast
  /\ hist = NoHist
  /\ err = NoErr

NextForeign ==
  \/ Parse
  \/ Continuation
  \/ FutDrop
  \/ \E c \in Consumers : GetModule(c, IF c = Owner THEN SA ELSE SC)
  \/ \E c \in Consumers : get_module_source(c)
  \/ \E c \in Consumers : take_module_source(c)

SpecForeign == InitForeign /\ [][NextForeign]_vars

\* SpecLife: an archive is built from a graph; its owner looks modules up,
\* reads and takes their sources and calls the builder methods, writes the
\* archive and parses the stream, and goes on while the continuation loads
\* the parsed archive.
InitLife ==
  /\ InitBuilt(GraphRedirect)
  /\ corrupted = NotCorrupted
  /\ fut = NoFuture
  /\ tasks = [c \in Consumers |-> NoTask]
  /\ woken = [c \in Consumers |-> 0]
  /\ ops = 0
  /\ last = NoLast
  /\ hist = NoHist
  /\ err = NoErr

NextLife ==
  \/ AddImportMap(Json, SD, B1)
  \/ AddOpaqueData(SB, B2)
  \/ IntoBytes(FALSE)
  \/ Parse
  \/ Continuation
  \/ \E specifier \in {SC, SD} : GetModule(Owner, specifier)
  \/ Calls(Owner)

SpecLife == InitLife /\ [][NextLife]_vars

\* SpecDeclared: V2.2 streams whose options declare a selector and, through
\* option 1, a digest size reach the parser, one byte changed or not.  Each
\* section before the data regions is followed by as many digest bytes as
\* the options declare: the first bytes of the digest of the declared
\* selector or of Sha256, with zero bytes behind them where it is shorter.
DeclaredSizes == {0, 1, 8, 32, 33}

resized(bytes, size) ==
  [i \in 1..size |-> IF i <= Len(bytes) THEN bytes[i] ELSE 0]

\* a section with its length prefix and size digest bytes
declared_section(body, size, digest_of) ==
  to_be_bytes(Len(body)) \o body \o resized(hash(digest_of, body), size)

\* the position behind the section without digest that starts at pos
section_end(bytes, pos) == pos + 4 + from_be_bytes(Slice(bytes, pos, pos + 4))

\* bytes is a stream written without digests: its module table starts at
\* table, its npm section at npm and its data regions at data
declared_from(bytes, table, npm, data, checksum, size, digest_of) ==
  ESZIP_V2_2_MAGIC
    \o declared_section(<<0, checksum, 1, size>>, size, digest_of)
    \o declared_section(Slice(bytes, table + 4, npm), size, digest_of)
    \o declared_section(Slice(bytes, npm + 4, data), size, digest_of)
    \o Slice(bytes, data, Len(bytes))

declared_npm(bytes, table, npm, checksum, size, digest_of) ==
  declared_from(bytes, table, npm, section_end(bytes, npm), checksum, size, digest_of)

declared_stream(checksum, size, digest_of) ==
  declared_npm(WrittenPlain, 8 + 4 + 4, section_end(WrittenPlain, 8 + 4 + 4),
               checksum, size, digest_of)

DeclaredStreams ==
  {declared_stream(checksum, size, checksum) :
     checksum \in Checksums, size \in DeclaredSizes}
  \cup {declared_stream(checksum, size, Sha256) :
          checksum \in Checksums, size \in DeclaredSizes}
  \cup {into_bytes(EszipV2(from_graph(FromGraphOptions(GraphRedirect, None)).modules, None,
                           OptionsRec(Some(checksum), None))) :
          checksum \in Checksums}

InitDeclared ==
  /\ \E bytes \in DeclaredStreams : stream = bytes
  /\ phase = "written"
  /\ eszip = EszipDefault
  /\ orig = None
  /\ corrupted = NotCorrupted
  /\ fut = NoFuture
  /\ tasks = [c \in Consumers |-> NoTask]
  /\ woken = [c \in Consumers |-> 0]
  /\ ops = 0
  /\ last = NoLast
  /\ hist = NoHist
  /\ err = NoErr

NextDeclared ==
  \/ \E i \in 1..Len(stream) : \E value \in ChangedTo(stream[i]) : Corrupt(i, value)
  \/ Parse
  \/ Continuation

SpecDeclared == InitDeclared /\ [][NextDeclared]_vars

\* SpecSection: a section that was read under some options is validated.
\* The stream holds the bytes of the section, a body and as many digest bytes
\* as the options in effect give; the digest bytes are the first bytes of the
\* digest of the body or of another body under one of the known selectors.
SectionBodies == {<<>>, <<1>>, <<1, 2>>, <<2, 1>>}

SectionOptions ==
  {options \in {OptionsRec(checksum, size) :
                  checksum \in {None} \cup {Some(c) : c \in Checksums},
                  size \in {None} \cup {Some(n) : n \in {0, 1, 8, 32}}} :
     checksum_size(options) # None}

SectionDigests(body, size) ==
  {resized(hash(checksum, of), size) :
     checksum \in Checksums, of \in {body, <<7>>}}

InitSection ==
  /\ \E options \in SectionOptions, body \in SectionBodies :
       \E digest \in SectionDigests(body, Unwrap(checksum_size(options))) :
          /\ stream = body \o digest
          /\ eszip = [EszipDefault EXCEPT !.options = options]
  /\ phase = "section"
  /\ orig = None
  /\ corrupted = NotCorrupted
  /\ fut = NoFuture
  /\ tasks = [c \in Consumers |-> NoTask]
  /\ woken = [c \in Consumers |-> 0]
  /\ ops = 0
  /\ last = NoLast
  /\ hist = NoHist
  /\ err = NoErr

\* Section::is_checksum_valid on the section Section(stream, options)
IsChecksumValid ==
  /\ phase = "section"
  /\ phase' = "validated"
  /\ last' = [op |-> "is_checksum_valid", specifier |-> <<>>,
              existed |-> FALSE,
              valid |-> is_checksum_valid(Section(stream, eszip.options))]
  /\ UNCHANGED <<eszip, stream, corrupted, fut, tasks, woken, ops, orig, hist, err>>

NextSection == IsChecksumValid

SpecSection == InitSection /\ [][NextSection]_vars

\* SpecOffsets: archives of three modules and a redirect, whose sources and
\* source maps are empty or not, are written under each selector, parsed and
\* loaded.
OffsetSources == {<<>>, B1, B2}
OffsetSourceMaps == {<<>>, M1, B2}

OffsetArchives ==
  {EszipV2(<< Entry(SA, Module(JavaScript, Ready(s1), Ready(m1))),
              Entry(SB, Module(Json, Ready(s2), Ready(m2))),
              Entry(SC, Redirect(SA)),
              Entry(SD, Module(JavaScript, Ready(B1), Ready(M1))) >>,
           None, OptionsRec(Some(checksum), None)) :
     s1 \in OffsetSources, m1 \in OffsetSourceMaps,
     s2 \in OffsetSources, m2 \in OffsetSourceMaps, checksum \in Checksums}

InitOffsets ==
  /\ \E archive \in OffsetArchives : eszip = archive
  /\ phase = "built"
  /\ stream = <<>>
  /\ orig = None
  /\ corrupted = NotCorrupted
  /\ fut = NoFuture
  /\ tasks = [c \in Consumers |-> NoTask]
  /\ woken = [c \in Consumers |-> 0]
  /\ ops = 0
  /\ last = NoLast
  /\ hist = NoHist
  /\ err = NoErr

NextOffsets ==
  \/ \E debug_assertions \in BOOLEAN : IntoBytes(debug_assertions)
  \/ Parse
  \/ Continuation

SpecOffsets == InitOffsets /\ [][NextOffsets]_vars

\* SpecTerm: streams with three modules reach the parser, one byte changed
\* or not, and the continuation is polled until it ends.  In the streams of
\* another writer the record of the third module points to elements of
\* length 0 at the given offsets, and the data regions are the ones
\* into_bytes wrote without digests.
third_empty(bytes, source_offset, source_map_offset) ==
  [i \in 1..Len(bytes) |->
     LET at == i - (8 + 4 + 4 + 4 + 2 * (4 + 1 + 1 + 16 + 1) + 4 + 1 + 1) IN
     IF at \in 1..4 THEN to_be_bytes(source_offset)[at]
     ELSE IF at \in 5..8 THEN 0
     ELSE IF at \in 9..12 THEN to_be_bytes(source_map_offset)[at - 8]
     ELSE IF at \in 13..16 THEN 0
     ELSE bytes[i]]

TermStreams ==
  {third_empty(ThreePlain, source_offset, source_map_offset) :
     source_offset \in 0..4, source_map_offset \in 0..2}
  \cup {ThreePlain, ThreeXxHash3}

InitTerm ==
  /\ \E bytes \in TermStreams : stream = bytes
  /\ phase = "written"
  /\ eszip = EszipDefault
  /\ orig = None
  /\ corrupted = NotCorrupted
  /\ fut = NoFuture
  /\ tasks = [c \in Consumers |-> NoTask]
  /\ woken = [c \in Consumers |-> 0]
  /\ ops = 0
  /\ last = NoLast
  /\ hist = NoHist
  /\ err = NoErr

NextTerm ==
  \/ \E i \in 1..Len(stream) : \E value \in ChangedTo(stream[i]) : Corrupt(i, value)
  \/ Parse
  \/ Continuation

SpecTerm == InitTerm /\ [][NextTerm]_vars

\* the caller of parse awaits the continuation that parse returned
SpecTermLive == SpecTerm /\ WF_vars(Continuation)

\* SpecGraph: from_graph is called on a module graph, with or without a
\* relative file base, and the modules of the archive are looked up.  The
\* graphs have up to four specifiers: a JavaScript module with dependencies,
\* a second and a third module of several variants that may import each
\* other and the first one, and a fourth specifier that is a load error, a
\* Json module, the source of a redirect or not in the graph.  The
\* specifiers are remote ones or file: specifiers, two of them below the
\* base and one outside it.
FileBase == <<47, 100, 47>>
FA == FileBase \o SA
FB == FileBase \o SB
FO == <<47, 111>>
FP == <<47, 112>>

GraphNamings == {<<SA, SB, SC, SD>>, <<FA, FB, FO, FP>>, <<FA, FO, FB, SD>>}
GraphRoots == {<<1>>, <<2, 1>>, <<3, 1>>, <<4, 1>>, <<1, 2>>}
GraphDeps ==
  { <<>>, << <<2, FALSE>> >>, << <<2, FALSE>>, <<3, FALSE>> >>,
    << <<3, FALSE>>, <<2, FALSE>> >>, << <<4, TRUE>>, <<2, FALSE>> >>,
    << <<4, FALSE>> >>, << <<0, FALSE>>, <<3, FALSE>> >> }
SecondVariants == {"Js", "JsToThird", "JsCycle", "Json", "External"}
ThirdVariants == {"Json", "External", "JsToSecond"}
FourthVariants == {"Err", "Missing", "Json", "RedirectToThird", "RedirectToSecond"}

\* the dependencies of a module: 0 stands for a dependency without code
deps_of(n, list) ==
  [i \in 1..Len(list) |->
     Dep(IF list[i][1] = 0 THEN None ELSE Some(n[list[i][1]]), list[i][2])]

second_slot(n, variant) ==
  CASE variant = "Js" -> JsModule(n[2], "TypeScript", B2, Some(Emit(B2, Some(M1))), <<>>)
    [] variant = "JsToThird" ->
         JsModule(n[2], "Mjs", B2, None, deps_of(n, << <<3, FALSE>> >>))
    [] variant = "JsCycle" ->
         JsModule(n[2], "JavaScript", B2, None,
                  deps_of(n, << <<3, FALSE>>, <<1, FALSE>> >>))
    [] variant = "Json" -> JsonModule(n[2], B2)
    [] variant = "External" -> ExternalModule(n[2])

third_slot(n, variant) ==
  CASE variant = "Json" -> JsonModule(n[3], B1)
    [] variant = "External" -> ExternalModule(n[3])
    [] variant = "JsToSecond" ->
         JsModule(n[3], "JavaScript", B1, None, deps_of(n, << <<2, FALSE>> >>))

fourth_slot(n, variant) ==
  CASE variant = "Err" -> (n[4] :> ErrSlot)
    [] variant = "Json" -> (n[4] :> JsonModule(n[4], B2))
    [] OTHER -> <<>>

fourth_redirects(n, variant) ==
  CASE variant = "RedirectToThird" -> << <<n[4], n[3]>> >>
    [] variant = "RedirectToSecond" -> << <<n[4], n[2]>> >>
    [] OTHER -> <<>>

MakeGraph(n, roots, deps, second, third, fourth) ==
  [roots |-> [i \in 1..Len(roots) |-> n[roots[i]]],
   redirects |-> fourth_redirects(n, fourth),
   slots |-> (n[1] :> JsModule(n[1], "JavaScript", B1, None, deps_of(n, deps)))
             @@ (n[2] :> second_slot(n, second))
             @@ (n[3] :> third_slot(n, third))
             @@ fourth_slot(n, fourth)]

GraphOptions ==
  {FromGraphOptions(MakeGraph(n, roots, deps, second, third, fourth), base) :
     n \in GraphNamings, roots \in GraphRoots, deps \in GraphDeps,
     second \in SecondVariants, third \in ThirdVariants, fourth \in FourthVariants,
     base \in {None, Some(FileBase)}}

InitGraph ==
  /\ \E opts \in GraphOptions : orig = Some(opts)
  /\ phase = "graph"
  /\ eszip = EszipDefault
  /\ stream = <<>>
  /\ corrupted = NotCorrupted
  /\ fut = NoFuture
  /\ tasks = [c \in Consumers |-> NoTask]
  /\ woken = [c \in Consumers |-> 0]
  /\ ops = 0
  /\ last = NoLast
  /\ hist = NoHist
  /\ err = NoErr

\* EszipV2::from_graph(opts): the archive or an error
FromGraphReturns(built) ==
  IF built.ok
    THEN /\ phase' = "built"
         /\ eszip' = EszipV2(built.modules, built.npm_snapshot, built.options)
         /\ err' = err
    ELSE /\ phase' = "failed"
         /\ err' = [kind |-> "anyhow", arg |-> <<>>]
         /\ eszip' = eszip

FromGraph ==
  /\ phase = "graph"
  /\ FromGraphReturns(from_graph(Unwrap(orig)))
  /\ UNCHANGED <<stream, corrupted, fut, tasks, woken, ops, orig, last, hist>>

NextGraph ==
  \/ FromGraph
  \/ \E i \in 1..Len(eszip.modules) : GetModule(Owner, eszip.modules[i].key)

SpecGraph == InitGraph /\ [][NextGraph]_vars

\* SpecHandle: the life of SpecLife with the panics of the calls on a
\* module handle.  Each of get_module_source, take_module_source,
\* get_module_source_map and take_module_source_map starts with
\* self.0.lock().unwrap(), which panics when the continuation panicked
\* while it held the lock, then modules.get_mut(specifier).unwrap(), which
\* panics when the specifier is not a key, and panics in the Redirect arm.
get_mut_panics(modules, specifier) ==
  \/ ~contains_key(modules, specifier)
  \/ get(modules, specifier).type = "Redirect"

CallPanics(c, op) ==
  /\ phase \in {"built", "parsed"}
  /\ tasks[c].pc \in {"handle", "done"}
  /\ Poisoned \/ get_mut_panics(eszip.modules, tasks[c].specifier)
  /\ Panics(c, op)
  /\ UNCHANGED <<eszip, stream, corrupted, fut, woken, ops, orig, last, hist, err>>

HandleOps == {"source", "take_source", "source_map", "take_source_map"}

NextHandle ==
  \/ AddImportMap(Json, SD, B1)
  \/ AddOpaqueData(SB, B2)
  \/ IntoBytes(FALSE)
  \/ Parse
  \/ Continuation
  \/ \E specifier \in {SC, SD} : GetModule(Owner, specifier)
  \/ Calls(Owner)
  \/ \E op \in HandleOps : CallPanics(Owner, op)

SpecHandle == InitLife /\ [][NextHandle]_vars

\* ------------------------------------------------------------------ claims
\* the modules of the parsed and completely loaded archive are those of the
\* archive a: specifier sequence, kinds, source and source-map bytes,
\* redirect targets
SameModules(parsed, a) ==
  /\ keys(parsed.modules) = keys(a.modules)
  /\ \A i \in 1..Len(a.modules) :
        LET was == a.modules[i].val
            now == parsed.modules[i].val
        IN  /\ now.type = was.type
            /\ was.type = "Redirect" => now.target = was.target
            /\ was.type = "Module" =>
                  /\ now.kind = was.kind
                  /\ now.source = Ready(was.source.bytes)
                  /\ now.source_map = Ready(was.source_map.bytes)

\* the snapshot without the package fields that the archive does not store
Stored(snapshot) ==
  IF snapshot = None THEN None
  ELSE Some([packages |->
               [i \in 1..Len(Unwrap(snapshot).packages) |->
                  [id |-> Unwrap(snapshot).packages[i].id,
                   dependencies |-> Unwrap(snapshot).packages[i].dependencies]],
             root_packages |-> Unwrap(snapshot).root_packages])

\* C1 as stated: whenever into_bytes has written a built archive, parsing
\* the written stream and completing the continuation succeeds and yields
\* the same modules and the same npm snapshot, every field of every package
\* included.
C1_Original ==
  orig # None =>
    /\ phase # "failed"
    /\ fut.state \notin {"err", "panic"}
    /\ (phase = "parsed" /\ fut.state = "ok") =>
          /\ SameModules(eszip, Unwrap(orig))
          /\ eszip.npm_snapshot = Unwrap(orig).npm_snapshot

\* C1: whenever into_bytes has written an archive that was built from a
\* graph by the builder methods (all of its slots Ready, under whatever
\* checksum the builder selected), parsing the written stream does not fail,
\* the continuation does not fail, and once the continuation has completed
\* the parsed archive has the same specifiers in the same order, the same
\* kinds, sources, source maps and redirect targets, and an npm snapshot (or
\* none) with the same root packages and the same packages, in the same
\* order, with the same ids and dependencies; the package fields that the
\* archive does not store come back as their defaults.
C1_RoundTrip ==
  orig # None =>
    /\ phase # "failed"
    /\ fut.state \notin {"err", "panic"}
    /\ (phase = "parsed" /\ fut.state = "ok") =>
          /\ SameModules(eszip, Unwrap(orig))
          /\ Stored(eszip.npm_snapshot) = Stored(Unwrap(orig).npm_snapshot)
          /\ eszip.npm_snapshot # None =>
                \A i \in 1..Len(Unwrap(eszip.npm_snapshot).packages) :
                  Unwrap(eszip.npm_snapshot).packages[i].dist = DistDefault

\* a written archive with modules, a redirect, an added entry and an npm
\* snapshot has been parsed back and loaded completely
C1_Witness ==
  /\ orig # None /\ phase = "parsed" /\ fut.state = "ok"
  /\ Unwrap(orig).npm_snapshot = Some(SnapshotDist)
  /\ \E i, j, k \in 1..Len(eszip.modules) :
        /\ eszip.modules[i].val.type = "Redirect"
        /\ eszip.modules[j].val.type = "Module"
        /\ eszip.modules[j].val.source_map = Ready(M1)
        /\ eszip.modules[k].val.type = "Module"
        /\ eszip.modules[k].val.kind = OpaqueData

\* the call of consumer c that completes in this step is source() or
\* take_source()
SourceCallReturns(c) ==
  /\ get_module_source(c) \/ take_module_source(c)
  /\ tasks'[c].pc = "done"

\* C2 as stated: once take_source on s has returned Some, every later
\* source() and take_source() on s returns None, whatever was done to the
\* archive in between.
C2_Original ==
  [][\A c \in Consumers :
       (SourceCallReturns(c) /\ tasks[c].specifier \in hist.ever)
         => tasks'[c].ret = None]_vars

\* C2: once take_source on s has returned Some, every later source() and
\* take_source() on s returns None, whatever add_import_map, set_checksum,
\* take_source_map, lookups and steps of the continuation happen in between,
\* as long as add_opaque_data has not been called on s since: that call
\* replaces the entry of s by a new one whose source is Ready.
C2_TakenIsSticky ==
  [][\A c \in Consumers :
       (SourceCallReturns(c) /\ tasks[c].specifier \in hist.source)
         => tasks'[c].ret = None]_vars

\* a source was taken, the builder was called twice, and a later source()
\* or take_source() on the same specifier has returned None
C2_Witness ==
  \E c \in Consumers :
    /\ tasks[c].pc = "done"
    /\ tasks[c].op \in {"source", "take_source"}
    /\ tasks[c].ret = None
    /\ tasks[c].specifier \in hist.source
    /\ ops = MaxOps
    /\ fut.state = "ok"

\* C3: of the take_source calls on one specifier, issued by any consumers in
\* any interleaving with each other and with the continuation, no two return
\* Some; and a take_source call that returns None does so only after another
\* one has returned Some, so that exactly one of the completed calls has the
\* bytes.
C3_TakeSourceAtomic ==
  /\ hist.source_twice = {}
  /\ \A c \in Consumers :
        (tasks[c].pc = "done" /\ tasks[c].op = "take_source")
          => tasks[c].specifier \in hist.source

\* two consumers have called take_source on the same specifier, both calls
\* were parked on the Pending slot, and both have completed: one with the
\* bytes and one with None
C3_Witness ==
  \E c, d \in Consumers :
    /\ c # d
    /\ tasks[c].specifier = tasks[d].specifier
    /\ tasks[c].pc = "done" /\ tasks[c].op = "take_source" /\ tasks[c].ret # None
    /\ tasks[d].pc = "done" /\ tasks[d].op = "take_source" /\ tasks[d].ret = None
    /\ woken[c] > 0 /\ woken[d] > 0

\* C4 as stated: of the take_source_map calls on one specifier, at most one
\* returns Some.
C4_TakeSourceMapAtomic == hist.source_map_twice = {}

\* the specifiers asked of get_module: the keys of the archives and absent ones
Probes == AllSpecifiers \cup {<<101>>}
V1Probes == {UA, UB, UC, UD, <<101, 58>>, SA}

IsModuleKey(modules, specifier) ==
  contains_key(modules, specifier) /\ get(modules, specifier).type = "Module"

\* the lookup of EszipV1::get_module on the V1 archives
V1LookupSound ==
  \A a \in V1Archives, x \in V1Probes :
    /\ v1_get_module(a, x).hops <= Len(a)
    /\ v1_get_module(a, x).module # None =>
          /\ contains_key(a, Unwrap(v1_get_module(a, x).module).specifier)
          /\ get(a, Unwrap(v1_get_module(a, x).module).specifier).type = "Source"

\* C5: on every archive content that is reached (redirect cycles,
\* self-redirects and redirects to absent targets included) and for every
\* specifier x, the lookup of get_module(x) ends after following at most
\* |modules| redirects, and get_module(x) is None or a handle whose specifier
\* is the key of a Module entry; this holds of the V2 lookup, of the V1
\* lookup, and of the result of every get_module call made by a consumer.
C5_RedirectSoundness ==
  /\ \A x \in Probes :
        /\ lookup(eszip.modules, x).hops <= Len(eszip.modules)
        /\ get_module(eszip.modules, x) # None =>
              IsModuleKey(eszip.modules, Unwrap(get_module(eszip.modules, x)).specifier)
  /\ V1LookupSound
  /\ \A c \in Consumers :
        tasks[c].op = "get_module" =>
          /\ tasks[c].hops <= Len(eszip.modules)
          /\ tasks[c].pc = "handle" => IsModuleKey(eszip.modules, tasks[c].specifier)

\* get_module was asked for a specifier on a redirect cycle: it followed two
\* redirects and returned None
C5_Witness ==
  /\ tasks[Owner].op = "get_module"
  /\ tasks[Owner].asked = SA
  /\ tasks[Owner].pc = "idle"
  /\ tasks[Owner].hops = 2
  /\ contains_key(eszip.modules, SA) /\ get(eszip.modules, SA).type = "Redirect"
  /\ get(eszip.modules, get(eszip.modules, SA).target).type = "Redirect"

\* the specifiers on the redirect chain from x: the least set that holds x
\* and the target of every Redirect entry whose key it holds
RECURSIVE Chain(_, _)
Chain(modules, reached) ==
  LET further == reached \cup
        {get(modules, k).target :
           k \in {k \in reached : contains_key(modules, k)
                                  /\ get(modules, k).type = "Redirect"}}
  IN  IF further = reached THEN reached ELSE Chain(modules, further)

\* the keys of the Module entries at which the chain from x ends
ChainEnd(modules, x) == {k \in Chain(modules, {x}) : IsModuleKey(modules, k)}

\* what a lookup that leaves out the entries of the kind `hidden` returns
Expected(modules, x, hidden) ==
  IF \E k \in ChainEnd(modules, x) : get(modules, k).kind # hidden
    THEN LET k == CHOOSE k \in ChainEnd(modules, x) : TRUE
         IN  Some(Handle(k, get(modules, k).kind))
    ELSE None

\* the handle that consumer c holds after a lookup that returned module
Holds(c, module) ==
  IF module = None THEN tasks'[c].pc = "idle"
  ELSE /\ tasks'[c].pc = "handle"
       /\ tasks'[c].specifier = Unwrap(module).specifier
       /\ tasks'[c].kind = Unwrap(module).kind

\* consumer c receives the result of a lookup in this step (only GetModule
\* and GetImportMap leave these values in tasks[c])
LookupReturns(c) ==
  /\ tasks'[c] # tasks[c]
  /\ tasks'[c].op \in {"get_module", "get_import_map"}
  /\ tasks'[c].pc \in {"idle", "handle"}

AddImportMapReturns == ops' = ops + 1 /\ last'.op = "add_import_map"

\* the specifiers of the items of an iteration
Iterated(modules) == [i \in 1..Len(into_iter(modules)) |-> into_iter(modules)[i][1]]

Without(seq, k) == SelectSeq(seq, LAMBDA x : x # k)
Common(seq, other) == SelectSeq(seq, LAMBDA x : \E i \in 1..Len(other) : other[i] = x)

\* the specifiers other than s keep their relative order in specifiers(), and
\* those that iteration yields before and after keep theirs in iteration
OthersKeepOrder(s) ==
  /\ Without(specifiers(eszip'.modules), s) = Without(specifiers(eszip.modules), s)
  /\ Common(Without(Iterated(eszip'.modules), s), Iterated(eszip.modules))
       = Common(Without(Iterated(eszip.modules), s), Iterated(eszip'.modules))

\* C7 as stated: after add_import_map(k, s, b) on any archive, s is the first
\* specifier of specifiers() and of iteration and the other specifiers keep
\* their relative order.
C7_Original ==
  [][AddImportMapReturns =>
       /\ Head(specifiers(eszip'.modules)) = last'.specifier
       /\ Iterated(eszip'.modules) # <<>>
       /\ Head(Iterated(eszip'.modules)) = last'.specifier
       /\ OthersKeepOrder(last'.specifier)]_vars

\* C7: after add_import_map(k, s, b) on any archive, whether or not s was
\* present, s is the first specifier of specifiers() and the other specifiers
\* keep their relative order in specifiers() and in iteration; s is the
\* specifier of the first item of iteration when the lookup of s finds a
\* module, and otherwise (s is a Redirect entry on a cycle or with an absent
\* target) iteration has no item for s.
C7_ImportMapFirst ==
  [][AddImportMapReturns =>
       /\ Head(specifiers(eszip'.modules)) = last'.specifier
       /\ IF lookup(eszip'.modules, last'.specifier).module # None
            THEN /\ Iterated(eszip'.modules) # <<>>
                 /\ Head(Iterated(eszip'.modules)) = last'.specifier
            ELSE \A i \in 1..Len(Iterated(eszip'.modules)) :
                   Iterated(eszip'.modules)[i] # last'.specifier
       /\ OthersKeepOrder(last'.specifier)]_vars

\* add_import_map was called on a specifier that existed behind other
\* entries, and on return it is the first of three or more specifiers and
\* the first item of iteration
C7_Witness ==
  /\ last.op = "add_import_map" /\ last.existed
  /\ Len(eszip.modules) >= 3
  /\ Head(specifiers(eszip.modules)) = last.specifier
  /\ Head(Iterated(eszip.modules)) = last.specifier
  /\ phase = "built"
  /\ eszip.modules # from_graph(FromGraphOptions(GraphRedirect, None)).modules
  /\ eszip.modules # from_graph(FromGraphOptions(GraphDynamic, None)).modules

\* C8: add_import_map(k, s, b) on a specifier s that exists leaves the entry
\* of s as it was (its variant, kind, source slot and source-map slot, or its
\* redirect target), leaves the number of entries and every other entry and
\* their order as they were, and changes nothing else of the archive: only
\* the position of s changes.
C8_ExistingUntouched ==
  [][(AddImportMapReturns /\ last'.existed) =>
       /\ contains_key(eszip'.modules, last'.specifier)
       /\ get(eszip'.modules, last'.specifier) = get(eszip.modules, last'.specifier)
       /\ Len(eszip'.modules) = Len(eszip.modules)
       /\ Remove(eszip'.modules, last'.specifier)
            = Remove(eszip.modules, last'.specifier)
       /\ eszip'.npm_snapshot = eszip.npm_snapshot
       /\ eszip'.options = eszip.options]_vars

\* add_import_map was called with kind Json and source B1 on the specifier of
\* a JavaScript module that was not the first entry: the module is first now
\* and is still the JavaScript module with its own source
C8_Witness ==
  /\ last.op = "add_import_map" /\ last.existed
  /\ Head(specifiers(eszip.modules)) = last.specifier
  /\ get(eszip.modules, last.specifier).type = "Module"
  /\ get(eszip.modules, last.specifier).kind = JavaScript
  /\ get(eszip.modules, last.specifier).source = Ready(B2)
  /\ get(eszip.modules, last.specifier).source_map = Ready(M1)

\* the slots of an archive, as <<specifier, field>>
Slots(modules) ==
  {x \in {modules[i].key : i \in 1..Len(modules)} \X {"source", "source_map"} :
     get(modules, x[1]).type = "Module"}
SlotAt(modules, x) ==
  IF x[2] = "source" THEN get(modules, x[1]).source ELSE get(modules, x[1]).source_map

\* the slots that this step moves out of Pending
Populated ==
  {x \in Slots(eszip.modules) \cap Slots(eszip'.modules) :
     /\ SlotAt(eszip.modules, x).state = "Pending"
     /\ SlotAt(eszip'.modules, x).state # "Pending"}

\* the slot that the call in progress of consumer c polls, in the next state
PolledSlot(c) ==
  SlotAt(eszip'.modules,
         <<tasks'[c].specifier,
           IF tasks'[c].op \in {"source", "take_source"} THEN "source"
           ELSE "source_map">>)

IsPrefix(short, long) ==
  Len(short) <= Len(long) /\ SubSeq(long, 1, Len(short)) = short

\* C9: in every interleaving of consumers polling source, take_source,
\* source_map and take_source_map with the continuation: (1) a call that is
\* suspended after a step polls a slot that is Pending with the waker of its
\* consumer registered, or a slot that has left Pending by a transition
\* that woke that consumer; (2) while a slot stays Pending no registered
\* waker is removed; (3) when a slot leaves Pending it becomes Ready, keeps
\* no waker, and every consumer is woken once for each of its wakers in the
\* list of that slot; (4) no consumer is woken otherwise.
C9_NoLostWakeup ==
  [][/\ \A c \in Consumers :
          tasks'[c].pc = "polling" =>
            \/ /\ PolledSlot(c).state = "Pending"
               /\ CountOf(PolledSlot(c).wakers, c) >= 1
            \/ /\ PolledSlot(c).state # "Pending"
               /\ woken'[c] >= 1
     /\ eszip'.modules # eszip.modules =>
          /\ \A x \in Slots(eszip.modules) \cap Slots(eszip'.modules) :
                (SlotAt(eszip.modules, x).state = "Pending"
                   /\ SlotAt(eszip'.modules, x).state = "Pending")
                  => IsPrefix(SlotAt(eszip.modules, x).wakers,
                              SlotAt(eszip'.modules, x).wakers)
          /\ Cardinality(Populated) <= 1
          /\ \A x \in Populated :
                /\ SlotAt(eszip'.modules, x).state = "Ready"
                /\ "wakers" \notin DOMAIN SlotAt(eszip'.modules, x)
                /\ \A c \in Consumers :
                      woken'[c] = woken[c] + CountOf(SlotAt(eszip.modules, x).wakers, c)
     /\ (eszip'.modules = eszip.modules \/ Populated = {}) => woken' = woken]_vars

\* two consumers were suspended on Pending slots, one of them with two
\* wakers registered; the continuation has completed, each was woken once
\* per waker, and the call of the first has returned the bytes
C9_Witness ==
  \E c, d \in Consumers :
    /\ c # d
    /\ woken[c] = 2 /\ woken[d] = 1
    /\ tasks[c].pc = "done" /\ tasks[c].ret # None
    /\ fut.state = "ok"

\* the data region that the continuation is reading, and its offsets map
Region == IF fut.state = "sources" THEN "source" ELSE "source_map"
RegionOffsets ==
  IF fut.state = "sources" THEN fut.source_offsets ELSE fut.source_map_offsets

\* The continuation is about to read, at position fut.read of a data region,
\* the body of the module `specifier` (length bytes, then the digest), the
\* selector is Sha256 or XxHash3, and the digest stored in the stream is not
\* the digest of the body.  The digest is recomputed here from the bytes of
\* the stream.
BadDigest(specifier, length) ==
  /\ phase = "parsed"
  /\ fut.state \in {"sources", "source_maps"}
  /\ fut.read < fut.len
  /\ <<fut.read, <<length, specifier>>>> \in RegionOffsets
  /\ fut.options.checksum \in {Some(Sha256), Some(XxHash3)}
  /\ LET size == digest_size(Unwrap(fut.options.checksum)) IN
     /\ fut.pos + length + size <= Len(stream)
     /\ hash(Unwrap(fut.options.checksum), SubSeq(stream, fut.pos + 1, fut.pos + length))
          # SubSeq(stream, fut.pos + length + 1, fut.pos + length + size)

\* in the next state the slot at the position being read, the slots of the
\* region at later positions and, while the sources are read, the slots of
\* the source maps region are Pending still
LaterSlotsPending ==
  /\ \A x \in RegionOffsets :
        x[1] >= fut.read =>
          SlotAt(eszip'.modules, <<x[2][2], Region>>).state = "Pending"
  /\ Region = "source" =>
        \A x \in fut.source_map_offsets :
          SlotAt(eszip'.modules, <<x[2][2], "source_map">>).state = "Pending"

\* C10: when the selector is Sha256 or XxHash3 and the continuation comes
\* to a source or source-map body whose stored digest does not match, its
\* next step resolves it to the error InvalidV2SourceHash with the specifier
\* of that module, leaving the slot of that body, every slot at a later
\* offset of the region and every slot of a later region Pending; and once
\* the continuation has resolved to an error no step changes it or the
\* archive, so that none of these slots is ever set Ready.
C10_SourceHash ==
  [][/\ fut.state = "err" => (fut' = fut /\ eszip' = eszip)
     /\ \A specifier \in {m[2][2] : m \in RegionOffsets},
           length \in {m[2][1] : m \in RegionOffsets} :
          BadDigest(specifier, length) =>
            /\ fut'.state = "err"
            /\ fut'.err = [kind |-> "InvalidV2SourceHash", arg |-> specifier]
            /\ LaterSlotsPending]_vars

\* a byte of the first source body was changed in an archive checksummed
\* with Sha256: the continuation resolved to InvalidV2SourceHash for the
\* module of that body, and the slots of that module and of the module
\* after it are Pending
C10_Witness ==
  /\ corrupted.at # 0
  /\ fut.state = "err"
  /\ fut.err = [kind |-> "InvalidV2SourceHash", arg |-> SA]
  /\ fut.options.checksum = Some(Sha256)
  /\ get(eszip.modules, SA).source.state = "Pending"
  /\ get(eszip.modules, SB).source.state = "Pending"
  /\ get(eszip.modules, SB).source_map.state = "Pending"

\* --------------------------------------------------------------------- C11
\* the stream as into_bytes wrote it
Sent ==
  IF corrupted.at = 0 THEN stream ELSE [stream EXCEPT ![corrupted.at] = corrupted.was]

U32At(at) == from_be_bytes(Slice(Sent, at, at + 4))

\* the layout of the stream that was written: the positions at which the
\* bodies of the options, of the module table and of the npm snapshot start
\* and end, and those of the two data regions
OptionsEnd == 12 + U32At(8)
SentOptions ==
  read_options(Slice(Sent, 12, OptionsEnd), default_for_version(LATEST_VERSION))
SentDigest == Unwrap(checksum_size(SentOptions))
TableStart == OptionsEnd + SentDigest + 4
TableEnd == TableStart + U32At(TableStart - 4)
NpmStart == TableEnd + SentDigest + 4
NpmEnd == NpmStart + U32At(NpmStart - 4)
SourcesStart == NpmEnd + SentDigest + 4
SourcesEnd == SourcesStart + U32At(SourcesStart - 4)
MapsStart == SourcesEnd + 4

\* the changed byte lies in a module body of a data region: between the
\* offset of a slot and the end of its length (the digest comes after)
InBody(offsets, start) ==
  \E x \in offsets :
     /\ corrupted.at > start + x[1]
     /\ corrupted.at <= start + x[1] + x[2][1]

\* the region whose body holds the changed byte, "" when none does
ChangedRegion ==
  IF corrupted.at > 12 /\ corrupted.at <= OptionsEnd THEN "options"
  ELSE IF corrupted.at > TableStart /\ corrupted.at <= TableEnd THEN "table"
  ELSE IF corrupted.at > NpmStart /\ corrupted.at <= NpmEnd THEN "npm"
  ELSE IF InBody(parse(Sent).source_offsets, SourcesStart) THEN "source"
  ELSE IF InBody(parse(Sent).source_map_offsets, MapsStart) THEN "source_map"
  ELSE ""

\* parse does not succeed, and fails with the error kind only
ParseFailsWith(kind) ==
  /\ phase # "parsed"
  /\ phase = "failed" => err.kind = kind

\* parse succeeds; the continuation does not, and fails with
\* InvalidV2SourceHash only
ContinuationFails ==
  /\ phase # "failed"
  /\ fut.state \notin {"ok", "panic"}
  /\ fut.state = "err" => fut.err.kind = "InvalidV2SourceHash"

Detected(region) ==
  CASE region = "options" -> ParseFailsWith("InvalidV22OptionsHeaderHash")
    [] region = "table" -> ParseFailsWith("InvalidV2HeaderHash")
    [] region = "npm" -> ParseFailsWith("InvalidV2NpmSnapshotHash")
    [] region \in {"source", "source_map"} -> ContinuationFails

\* C11 as stated: when the archive was written with a selector other than
\* NoChecksum, a change of any byte of the options body, the module table
\* body, the npm snapshot body or a module body makes parse or the
\* continuation fail with the digest error of that region.
C11_Original ==
  (corrupted.at # 0 /\ SentOptions.checksum # Some(NoChecksum) /\ ChangedRegion # "")
    => Detected(ChangedRegion)

\* the options that the decoder reads from the options body it receives
ReceivedOptions ==
  read_options(Slice(stream, 12, OptionsEnd), default_for_version(LATEST_VERSION))

\* C11 (amended): when the archive was written with a selector other than
\* NoChecksum, a change of any byte of the module table body, of the npm
\* snapshot body or of a module body makes parse or the continuation fail
\* with the digest error of that region.  A change of a byte of the options
\* body that leaves a selector the decoder does not know, with a digest size,
\* is accepted: parse and the continuation verify nothing and do not fail.
\* Every other change of the options body makes parse fail: with
\* InvalidV22OptionsHeaderHash when the byte is the id of option 0 or the
\* selector, and with that or another error when it is the id or the value of
\* option 1, the digest size.
C11_Detection ==
  (corrupted.at # 0 /\ SentOptions.checksum # Some(NoChecksum) /\ ChangedRegion # "")
    => IF ChangedRegion # "options" THEN Detected(ChangedRegion)
       ELSE IF ReceivedOptions.checksum = None /\ ReceivedOptions.checksum_size # None
         THEN phase # "failed" /\ fut.state \notin {"err", "panic"}
       ELSE /\ phase # "parsed"
            /\ corrupted.at \in {13, 14} => Detected("options")

\* a byte of the npm snapshot body of an archive written with XxHash3 was
\* changed and parse failed with InvalidV2NpmSnapshotHash
C11_Witness ==
  /\ corrupted.at # 0
  /\ SentOptions.checksum = Some(XxHash3)
  /\ ChangedRegion = "npm"
  /\ phase = "failed"
  /\ err.kind = "InvalidV2NpmSnapshotHash"

\* --------------------------------------------------------------------- C12
\* the stream is a V2.2 stream whose options declare a selector that the
\* decoder does not know, and a digest size
DeclaresUnknownSelector ==
  /\ Slice(stream, 0, 8) = ESZIP_V2_2_MAGIC
  /\ from_be_bytes(Slice(stream, 8, 12)) = 4
  /\ stream[13] = 0
  /\ stream[14] \notin Checksums
  /\ stream[15] = 1

\* C12: a V2.2 stream whose options declare an unknown selector and a digest
\* size is parsed and loaded without error, whatever its digests are; the
\* archive that parse returns has should_be_checksumed() = true and
\* is_checksumed() = false; and as long as set_checksum was not called (the
\* selector of the archive is None) into_bytes on it panics.
C12_UnknownSelector ==
  [][DeclaresUnknownSelector =>
       /\ phase' # "failed"
       /\ fut'.state \notin {"err", "panic"}
       /\ (phase = "written" /\ phase' = "parsed") =>
            /\ eszip'.options.checksum = None
            /\ should_be_checksumed(eszip'.options)
            /\ ~is_checksumed(eszip'.options)
       /\ (phase = "parsed" /\ eszip.options.checksum = None /\ phase' # "parsed") =>
            phase' = "panicked"]_vars

\* the stream with the unknown selector, whose options digest is not the
\* digest of its options body, was parsed and completely loaded; no checksum
\* was set
C12_Witness ==
  /\ DeclaresUnknownSelector
  /\ \A checksum \in Checksums : Slice(stream, 16, 48) # hash(checksum, Slice(stream, 12, 16))
  /\ phase = "parsed"
  /\ fut.state = "ok"
  /\ AllReady(eszip.modules)
  /\ eszip.options.checksum = None
  /\ should_be_checksumed(eszip.options)
  /\ ~is_checksumed(eszip.options)

\* --------------------------------------------------------------------- C13
\* the stream has the magic of a version older than V2.2
OlderMagic == Slice(stream, 0, 8) \in {ESZIP_V2_MAGIC, ESZIP_V2_1_MAGIC}

\* the stream is a V2.2 stream in whose options body no pair has the id 0
LacksSelector ==
  /\ Slice(stream, 0, 8) = ESZIP_V2_2_MAGIC
  /\ \A k \in 1..from_be_bytes(Slice(stream, 8, 12)) : k % 2 = 1 => stream[12 + k] # 0

\* in a stream of an older version the module table follows the magic; its
\* 32 digest bytes are the Sha256 digest of its body
OlderTableDigestMatches ==
  LET end == 12 + from_be_bytes(Slice(stream, 8, 12))
  IN  Slice(stream, end, end + 32) = hash(Sha256, Slice(stream, 12, end))

\* C13: the archive that parse returns for a stream with the magic ESZIP_V2
\* or ESZIP2.1 has the selector Sha256 and 32-byte digests, is_checksumed()
\* is true, and parse returns it only when the digest of the module table
\* matches; the archive that parse returns for a V2.2 stream whose options
\* hold no option 0 has the selector NoChecksum and 0-byte digests, and
\* is_checksumed() and should_be_checksumed() are false.
C13_VersionDefaults ==
  [][(phase = "written" /\ phase' = "parsed") =>
       /\ OlderMagic =>
            /\ eszip'.options.checksum = Some(Sha256)
            /\ checksum_size(eszip'.options) = Some(32)
            /\ is_checksumed(eszip'.options)
            /\ OlderTableDigestMatches
       /\ LacksSelector =>
            /\ eszip'.options.checksum = Some(NoChecksum)
            /\ checksum_size(eszip'.options) = Some(0)
            /\ ~is_checksumed(eszip'.options)
            /\ ~should_be_checksumed(eszip'.options)]_vars

\* a stream of an older version was parsed and loaded
C13_Witness ==
  /\ OlderMagic
  /\ phase = "parsed"
  /\ fut.state = "ok"
  /\ ops = 0
  /\ is_checksumed(eszip.options)

\* a V2.2 stream without option 0 was parsed and loaded
C13_WitnessLatest ==
  /\ LacksSelector
  /\ phase = "parsed"
  /\ fut.state = "ok"
  /\ ops = 0
  /\ ~should_be_checksumed(eszip.options)

\* --------------------------------------------------------------------- C14
OptionsLen == from_be_bytes(Slice(stream, 8, 12))

\* the stream is a V2.2 stream whose options body is made of pairs whose
\* ids are neither 0 nor 1
OnlyUnknownOptions ==
  /\ Slice(stream, 0, 8) = ESZIP_V2_2_MAGIC
  /\ OptionsLen % 2 = 0
  /\ \A k \in 1..OptionsLen : k % 2 = 1 => stream[12 + k] \notin {0, 1}

\* the same stream with an empty options body
EmptyOptions == Slice(stream, 0, 8) \o to_be_bytes(0) \o Slice(stream, 12 + OptionsLen, Len(stream))

\* the slot that the continuation leaves for a slot of the table when no
\* digests are written: the bytes of the region at the offset of the slot
LoadedSlot(bytes, region, slot) ==
  IF slot.state = "Pending"
    THEN Ready(Slice(bytes, region + slot.offset, region + slot.offset + slot.length))
    ELSE slot

\* the modules of a parsed stream without digests after the continuation
\* has returned Ok
Loaded(bytes, parsed) ==
  LET sources == parsed.pos + 4
      maps == sources + from_be_bytes(Slice(bytes, parsed.pos, parsed.pos + 4)) + 4
      modules == parsed.eszip.modules
  IN  [i \in 1..Len(modules) |->
         IF modules[i].val.type # "Module" THEN modules[i]
         ELSE Entry(modules[i].key,
                    [modules[i].val EXCEPT
                       !.source = LoadedSlot(bytes, sources, @),
                       !.source_map = LoadedSlot(bytes, maps, @)])]

\* C14: a V2.2 stream whose options body holds only options with ids other
\* than 0 and 1 parses; the archive has the options, the module table and,
\* once the continuation has returned Ok, the sources that the same stream
\* with an empty options body gives.
C14_ForwardCompatible ==
  OnlyUnknownOptions =>
    /\ phase # "failed"
    /\ fut.state \notin {"err", "panic"}
    /\ (phase = "parsed" /\ ops = 0) =>
         /\ parse(EmptyOptions).ok
         /\ eszip.options = parse(EmptyOptions).eszip.options
         /\ eszip.npm_snapshot = parse(EmptyOptions).eszip.npm_snapshot
         /\ fut.state = "start" => eszip.modules = parse(EmptyOptions).eszip.modules
         /\ fut.state = "ok" => eszip.modules = Loaded(EmptyOptions, parse(EmptyOptions))

\* a stream with two options that are not known was parsed and loaded
C14_Witness ==
  /\ OnlyUnknownOptions
  /\ OptionsLen = 4
  /\ phase = "parsed"
  /\ ops = 0
  /\ fut.state = "ok"
  /\ \E i \in 1..Len(eszip.modules) :
       /\ eszip.modules[i].val.type = "Module"
       /\ eszip.modules[i].val.source.state = "Ready"
       /\ eszip.modules[i].val.source.bytes # <<>>

\* --------------------------------------------------------------------- C15
\* C15: once add_npm_snapshot was called with a snapshot that has packages,
\* the first take_npm_snapshot after the last such call returned that
\* snapshot and left none in the archive, every later take_npm_snapshot
\* returned None, and as long as none was taken the archive holds that
\* snapshot; calls of add_npm_snapshot with a snapshot without packages in
\* between change none of this.
C15_NpmLifecycle ==
  (phase \in {"built", "parsed"} /\ hist.npm.added # None) =>
    /\ hist.npm.takes = 0 => eszip.npm_snapshot = hist.npm.added
    /\ hist.npm.takes = 1 =>
         /\ hist.npm.returned = hist.npm.added
         /\ eszip.npm_snapshot = None
    /\ hist.npm.takes = 2 =>
         /\ hist.npm.returned = None
         /\ eszip.npm_snapshot = None

\* a snapshot was added and take_npm_snapshot was called more than once
\* after it
C15_Witness ==
  /\ phase = "built"
  /\ hist.npm.added = Some(SnapshotTwo)
  /\ hist.npm.takes = 2
  /\ hist.npm.returned = None

\* --------------------------------------------------------------------- C16
\* the records of a module table body from position at on: the specifier,
\* the entry kind and, for a Module record, the two pointers
RECURSIVE TableRecords(_, _)
TableRecords(body, at) ==
  IF at >= Len(body) THEN <<>>
  ELSE
    LET u32(p) == from_be_bytes(Slice(body, p, p + 4))
        specifier == Slice(body, at + 4, at + 4 + u32(at))
        frame == at + 4 + u32(at)
        entry_kind == body[frame + 1]
    IN  IF entry_kind = HeaderFrameKind_Module
          THEN <<[specifier |-> specifier, entry_kind |-> entry_kind,
                  source |-> <<u32(frame + 1), u32(frame + 5)>>,
                  source_map |-> <<u32(frame + 9), u32(frame + 13)>>]>>
               \o TableRecords(body, frame + 18)
        ELSE IF entry_kind = HeaderFrameKind_Redirect
          THEN <<[specifier |-> specifier, entry_kind |-> entry_kind,
                  target |-> Slice(body, frame + 5, frame + 5 + u32(frame + 1))]>>
               \o TableRecords(body, frame + 5 + u32(frame + 1))
        ELSE <<[specifier |-> specifier, entry_kind |-> entry_kind]>>
               \o TableRecords(body, frame + 5)

\* the records of the module table of the stream
StreamRecords == TableRecords(Slice(stream, TableStart, TableEnd), 0)

RecordSpecifiers(records) == [i \in 1..Len(records) |-> records[i].specifier]

\* the slot that a pointer of the table stands for right after parse
SlotMatches(slot, pointer) ==
  IF pointer = <<0, 0>>
    THEN slot = Ready(<<>>)
    ELSE slot = Pending(pointer[1], pointer[2])

\* the table is complete when parse returns: every Module record has its
\* entry with the slots of its pointers, every Redirect record its entry,
\* and a Redirect record whose target is a Module record resolves
TableComplete(modules, records) ==
  \A i \in 1..Len(records) :
     LET r == records[i] IN
     /\ r.entry_kind = HeaderFrameKind_Module =>
          /\ contains_key(modules, r.specifier)
          /\ get(modules, r.specifier).type = "Module"
          /\ SlotMatches(get(modules, r.specifier).source, r.source)
          /\ SlotMatches(get(modules, r.specifier).source_map, r.source_map)
          /\ lookup(modules, r.specifier).module
               = Some(Handle(r.specifier, get(modules, r.specifier).kind))
     /\ r.entry_kind = HeaderFrameKind_Redirect =>
          /\ contains_key(modules, r.specifier)
          /\ get(modules, r.specifier) = Redirect(r.target)
          /\ (contains_key(modules, r.target) /\ get(modules, r.target).type = "Module") =>
               lookup(modules, r.specifier).module
                 = Some(Handle(r.target, get(modules, r.target).kind))

\* C16 as stated: when parse returns Ok, specifiers() lists the specifier
\* of every record of the table, and the table is complete.
C16_Original ==
  [][(phase = "written" /\ phase' = "parsed") =>
       /\ specifiers(eszip'.modules) = RecordSpecifiers(StreamRecords)
       /\ TableComplete(eszip'.modules, StreamRecords)]_vars

\* C16: when parse returns Ok, before the continuation was polled,
\* specifiers() lists the specifiers of the Module and Redirect records of
\* the table in the order of the table (the NpmSpecifier records are not
\* listed), get_module and get_import_map find the module of every Module
\* record and of every Redirect record that points to one, every slot
\* with a pointer other than (0,0) is Pending at that pointer and every
\* slot with the pointer (0,0) is Ready with no bytes.
C16_TableComplete ==
  [][(phase = "written" /\ phase' = "parsed") =>
       /\ fut'.state = "start"
       /\ specifiers(eszip'.modules) =
            RecordSpecifiers(SelectSeq(StreamRecords,
              LAMBDA r : r.entry_kind # HeaderFrameKind_NpmSpecifier))
       /\ TableComplete(eszip'.modules, StreamRecords)]_vars

\* parse has returned an archive whose table has a Redirect record, a slot
\* with the pointer (0,0) and a slot with another pointer; the continuation
\* has not been polled
C16_Witness ==
  /\ phase = "parsed"
  /\ fut.state = "start"
  /\ ops = 0
  /\ \E i \in 1..Len(StreamRecords) : StreamRecords[i].entry_kind = HeaderFrameKind_Redirect
  /\ \E i \in 1..Len(StreamRecords) :
       /\ StreamRecords[i].entry_kind = HeaderFrameKind_Module
       /\ StreamRecords[i].source # <<0, 0>>
       /\ StreamRecords[i].source_map = <<0, 0>>
       /\ get(eszip.modules, StreamRecords[i].specifier).source.state = "Pending"
       /\ get(eszip.modules, StreamRecords[i].specifier).source_map = Ready(<<>>)

\* --------------------------------------------------------------------- C17
\* the Module records of the table of the stream whose pointer of the field
\* is not (0,0)
Pointed(field) ==
  SelectSeq(StreamRecords,
    LAMBDA r : /\ r.entry_kind = HeaderFrameKind_Module
               /\ (IF field = "source" THEN r.source ELSE r.source_map) # <<0, 0>>)

PointerOf(r, field) == IF field = "source" THEN r.source ELSE r.source_map

FieldOf(modules, specifier, field) ==
  IF field = "source" THEN get(modules, specifier).source
  ELSE get(modules, specifier).source_map

\* the slot of the record becomes Ready in this step
BecomesReady(r, field) ==
  /\ FieldOf(eszip.modules, r.specifier, field).state = "Pending"
  /\ FieldOf(eszip'.modules, r.specifier, field).state = "Ready"

\* when the slot of a record becomes Ready, the slots of the field with a
\* smaller offset are no longer Pending and those with a greater offset are
\* Pending and stay so
InOffsetOrder(r, field) ==
  \A i \in 1..Len(Pointed(field)) :
     LET other == Pointed(field)[i] IN
     /\ PointerOf(other, field)[1] < PointerOf(r, field)[1] =>
          FieldOf(eszip.modules, other.specifier, field).state # "Pending"
     /\ PointerOf(other, field)[1] > PointerOf(r, field)[1] =>
          /\ FieldOf(eszip.modules, other.specifier, field).state = "Pending"
          /\ FieldOf(eszip'.modules, other.specifier, field).state = "Pending"
     /\ PointerOf(other, field)[1] = PointerOf(r, field)[1] => other = r

\* C17: while the continuation runs, source slots become Ready in strictly
\* increasing order of their offset, whatever the order of the specifiers;
\* a source map slot becomes Ready only when the sources region has been
\* consumed and no source slot is Pending, and source map slots become
\* Ready in increasing order of their offset.
C17_ReadyOrder ==
  [][phase = "parsed" =>
       /\ \A i \in 1..Len(Pointed("source")) :
            BecomesReady(Pointed("source")[i], "source") =>
              /\ fut.state = "sources"
              /\ InOffsetOrder(Pointed("source")[i], "source")
       /\ \A i \in 1..Len(Pointed("source_map")) :
            BecomesReady(Pointed("source_map")[i], "source_map") =>
              /\ fut.state = "source_maps"
              /\ \A j \in 1..Len(Pointed("source")) :
                   FieldOf(eszip.modules, Pointed("source")[j].specifier, "source").state
                     # "Pending"
              /\ InOffsetOrder(Pointed("source_map")[i], "source_map")]_vars

\* the stream in which the entry listed first has the later offset is
\* being loaded: the second entry of the table has its source, the first
\* has not yet
C17_Witness ==
  /\ phase = "parsed"
  /\ fut.state = "sources"
  /\ Len(eszip.modules) = 3
  /\ eszip.modules[1].val.source.state = "Pending"
  /\ eszip.modules[2].val.source.state = "Ready"
  /\ eszip.modules[3].val.source.state = "Pending"

\* both source maps were loaded after the three sources
C17_Loaded ==
  /\ phase = "parsed"
  /\ fut.state = "ok"
  /\ Len(eszip.modules) = 3
  /\ eszip.modules[1].val.source_map = Ready(M1)
  /\ eszip.modules[3].val.source_map = Ready(M1)

\* --------------------------------------------------------------------- C18
\* Eszip::parse has returned a V2 archive or an error of the V2 decoder
DecodedAsV2 ==
  \/ phase = "parsed"
  \/ phase = "failed" /\ err.kind \notin {"InvalidV1Json", "InvalidV1Version"}

\* Eszip::parse has returned a V1 archive or an error of the V1 decoder
DecodedAsV1 ==
  \/ phase = "parsed_v1"
  \/ phase = "failed" /\ err.kind \in {"InvalidV1Json", "InvalidV1Version"}

\* C18 as stated: whatever the number of bytes that the first read
\* delivers, Eszip::parse decodes a stream whose first 8 bytes are a magic
\* as V2, and decodes a stream as a V1 document only when its first 8 bytes
\* are no magic.
C18_Dispatch ==
  hist.first_read # 0 =>
    /\ has_magic(stream) => DecodedAsV2
    /\ DecodedAsV1 => ~has_magic(stream)

\* --------------------------------------------------------------------- C19
\* C19 as stated: in a V1 archive, once take_source on a handle has
\* returned Some, get_module for the specifier of the handle returns None,
\* and every later source() and take_source() on a handle of that
\* specifier returns None without a panic.
C19_V1Take ==
  [][\A c \in Consumers :
       /\ ((Module_source(c) \/ Module_take_source(c))
             /\ tasks[c].specifier \in hist.source)
            => (tasks'[c].pc = "done" /\ tasks'[c].ret = None /\ phase' = "parsed_v1")
       /\ \A specifier \in hist.source :
            Eszip_get_module(c, specifier) => tasks'[c].pc = "idle"]_vars

\* --------------------------------------------------------------------- C20
\* C20 as stated: into_iter yields, in specifier order, one item for every
\* entry of the archive; the item of a Module entry carries the specifier
\* and the kind of the entry.
C20_Original ==
  phase = "iterated" =>
    /\ Len(hist.items) = Len(eszip.modules)
    /\ \A i \in 1..Len(hist.items) :
         /\ hist.items[i][1] = eszip.modules[i].key
         /\ eszip.modules[i].val.type = "Module" =>
              hist.items[i][2] = Handle(eszip.modules[i].key, eszip.modules[i].val.kind)

\* the entries whose redirect chain ends at a Module entry
Resolvable(modules) ==
  SelectSeq(modules, LAMBDA e : ChainEnd(modules, e.key) # {})

\* C20: into_iter yields, in specifier order, one item for every entry
\* whose redirect chain ends at a Module entry, and none for a Redirect
\* entry whose chain ends in a cycle or at an absent specifier.  Every
\* Module entry has its item, import maps of kind Jsonc included, with the
\* specifier and the kind of the entry; the item of a Redirect entry has
\* the specifier of the redirect and the handle of the module at the end
\* of its chain.
C20_Iteration ==
  phase = "iterated" =>
    /\ Len(hist.items) = Len(Resolvable(eszip.modules))
    /\ \A i \in 1..Len(eszip.modules) :
         eszip.modules[i].val.type = "Module" =>
           \E j \in 1..Len(hist.items) :
              hist.items[j] = <<eszip.modules[i].key,
                                Handle(eszip.modules[i].key, eszip.modules[i].val.kind)>>
    /\ \A j \in 1..Len(hist.items) :
         /\ hist.items[j][1] = Resolvable(eszip.modules)[j].key
         /\ \E k \in ChainEnd(eszip.modules, hist.items[j][1]) :
              hist.items[j][2] = Handle(k, get(eszip.modules, k).kind)

\* an archive with a Jsonc entry, redirects that lead to it and a redirect
\* to an absent specifier was iterated: the last has no item
C20_Witness ==
  /\ phase = "iterated"
  /\ Len(eszip.modules) = 4
  /\ Len(hist.items) = 3
  /\ \E j \in 1..Len(hist.items) :
       /\ hist.items[j][2].kind = Jsonc
       /\ hist.items[j][1] = hist.items[j][2].specifier
  /\ \E j \in 1..Len(hist.items) : hist.items[j][1] # hist.items[j][2].specifier
\* --------------------------------------------------------------------- C21
\* the version of the stream that was written
SentMagic == Slice(Sent, 0, 8)

\* the npm section of the stream that was written: the position of its
\* length, after the module table section, and the size of its digest
SnapshotAt ==
  IF SentMagic = ESZIP_V2_2_MAGIC THEN NpmStart - 4 ELSE 8 + 4 + U32At(8) + 32
SnapshotDigest == IF SentMagic = ESZIP_V2_2_MAGIC THEN SentDigest ELSE 32

\* the changed byte lies in the body or in the digest of the npm section
InSnapshot ==
  /\ corrupted.at > SnapshotAt + 4
  /\ corrupted.at <= SnapshotAt + 4 + U32At(SnapshotAt) + SnapshotDigest

\* parse returns in this step
ParseStep == phase = "written" /\ phase' # "written"

\* take_npm_snapshot is called for the first time in this step, on a parsed
\* archive whose continuation was not polled
FirstTakeUnpolled ==
  /\ phase = "parsed"
  /\ fut.state = "start"
  /\ hist.npm.takes = 0
  /\ hist'.npm.takes = 1

C21_Step ==
  SentMagic # ESZIP_V2_MAGIC =>
    /\ (ParseStep /\ phase' = "parsed" /\ (corrupted.at = 0 \/ SnapshotDigest > 0)) =>
          /\ fut'.state = "start"
          /\ eszip'.npm_snapshot # None
          /\ Stored(eszip'.npm_snapshot) = Stored(Unwrap(orig).npm_snapshot)
    /\ (FirstTakeUnpolled /\ (corrupted.at = 0 \/ SnapshotDigest > 0)) =>
          /\ hist'.npm.returned # None
          /\ Stored(hist'.npm.returned) = Stored(Unwrap(orig).npm_snapshot)
          /\ fut'.state = "start"
    /\ (ParseStep /\ InSnapshot /\ SnapshotDigest > 0) =>
          /\ phase' = "failed"
          /\ err'.kind = "InvalidV2NpmSnapshotHash"

\* C21: for a stream of version V2.1 or V2.2 that was written with an npm
\* snapshot, the step in which parse returns Ok leaves the snapshot that was
\* written in the archive while the continuation has not been polled; a
\* first take_npm_snapshot before the continuation is polled returns that
\* snapshot and polls nothing; and when a byte of the body or of the digest
\* of the npm section was changed, under a selector with a digest, parse
\* itself fails, with InvalidV2NpmSnapshotHash.
C21_NpmInParse == [][C21_Step]_vars

\* the snapshot with two packages was taken from an archive parsed from a
\* V2.2 stream with XxHash3 digests, before the continuation was polled
C21_Witness ==
  /\ phase = "parsed"
  /\ fut.state = "start"
  /\ Slice(stream, 0, 8) = ESZIP_V2_2_MAGIC
  /\ eszip.options.checksum = Some(XxHash3)
  /\ hist.npm.takes = 1
  /\ hist.npm.returned # None
  /\ Len(Unwrap(hist.npm.returned).packages) = 2
  /\ eszip.npm_snapshot = None
\* --------------------------------------------------------------------- C22
\* this step is a poll of the call op of consumer c (when the call stays
\* suspended, the poll that appends the waker of c), or the second critical
\* section of take_source_map
Polls(c, op) ==
  /\ tasks'[c].op = op
  /\ tasks'[c].pc \in {"polling", "dropping", "done"}
  /\ fut' = fut
  /\ \/ tasks'[c] # tasks[c]
     \/ /\ tasks' = tasks
        /\ \E x \in Slots(eszip.modules) :
              /\ SlotAt(eszip.modules, x).state = "Pending"
              /\ SlotAt(eszip'.modules, x).state = "Pending"
              /\ SlotAt(eszip'.modules, x).wakers
                   = Append(SlotAt(eszip.modules, x).wakers, c)

\* a slot without the wakers that polls register on it while it is Pending
Unparked(slot) == IF slot.state = "Pending" THEN [slot EXCEPT !.wakers = <<>>] ELSE slot

\* the step leaves the specifiers and their order, the other entries, the
\* npm snapshot and the options as they were, and leaves the entry of s a
\* module of the same kind
OthersUnchanged(s) ==
  /\ keys(eszip'.modules) = keys(eszip.modules)
  /\ Remove(eszip'.modules, s) = Remove(eszip.modules, s)
  /\ get(eszip'.modules, s).type = "Module"
  /\ get(eszip'.modules, s).kind = get(eszip.modules, s).kind
  /\ eszip'.npm_snapshot = eszip.npm_snapshot
  /\ eszip'.options = eszip.options

C22_Step ==
  \A c \in Consumers :
    LET s == tasks'[c].specifier IN
    /\ Polls(c, "take_source") =>
         /\ OthersUnchanged(s)
         /\ get(eszip'.modules, s).source_map = get(eszip.modules, s).source_map
    /\ Polls(c, "take_source_map") =>
         /\ OthersUnchanged(s)
         /\ get(eszip'.modules, s).source = get(eszip.modules, s).source
    /\ Polls(c, "source") =>
         /\ OthersUnchanged(s)
         /\ get(eszip'.modules, s).source_map = get(eszip.modules, s).source_map
         /\ Unparked(get(eszip'.modules, s).source) = Unparked(get(eszip.modules, s).source)
         /\ get(eszip.modules, s).source.state = "Ready" =>
               /\ tasks'[c].pc = "done"
               /\ tasks'[c].ret = Some(get(eszip'.modules, s).source.bytes)
    /\ Polls(c, "source_map") =>
         /\ OthersUnchanged(s)
         /\ get(eszip'.modules, s).source = get(eszip.modules, s).source
         /\ Unparked(get(eszip'.modules, s).source_map)
              = Unparked(get(eszip.modules, s).source_map)
         /\ get(eszip.modules, s).source_map.state = "Ready" =>
               /\ tasks'[c].pc = "done"
               /\ tasks'[c].ret = Some(get(eszip'.modules, s).source_map.bytes)

\* C22: a poll of take_source on a module leaves the source-map slot of the
\* module, its kind, the specifiers and their order, and every other entry
\* as they were; the two critical sections of take_source_map leave the
\* source slot and all of these as they were; a poll of source() or
\* source_map() changes no slot, apart from the waker it registers on the
\* slot it polls while that slot is Pending, and on a Ready slot it returns
\* the bytes of the slot and leaves them there, so that repeated calls return
\* the same bytes.
C22_Independent == [][C22_Step]_vars

\* a consumer took the source of a module whose source-map slot is Ready
\* with the source map still, and another consumer has read that source map
C22_Witness ==
  \E c, d \in Consumers :
    /\ c # d
    /\ tasks[c].pc = "done" /\ tasks[c].op = "take_source" /\ tasks[c].ret = Some(B2)
    /\ tasks[d].pc = "done" /\ tasks[d].op = "source_map" /\ tasks[d].ret = Some(M1)
    /\ tasks[d].specifier = tasks[c].specifier
    /\ get(eszip.modules, tasks[c].specifier).source = Taken
    /\ get(eszip.modules, tasks[c].specifier).source_map = Ready(M1)
\* --------------------------------------------------------------------- C23
\* the slots x and y are slots of the same data region, both Pending, with
\* the same offset and length
SharesPointer(x, y) ==
  /\ x[2] = y[2]
  /\ SlotAt(eszip.modules, x).state = "Pending"
  /\ SlotAt(eszip.modules, y).state = "Pending"
  /\ SlotAt(eszip.modules, x).offset = SlotAt(eszip.modules, y).offset
  /\ SlotAt(eszip.modules, x).length = SlotAt(eszip.modules, y).length

\* C23: when a step of the continuation consumes an element of a data region
\* and makes a slot Ready, every slot of that region that is Pending with the
\* same offset and length becomes Ready with the same bytes in that step,
\* and every consumer is woken once for each of its wakers on each of these
\* slots.
C23_SharedOffsets ==
  [][\A x \in Populated : \A y \in Slots(eszip.modules) :
       SharesPointer(x, y) =>
         /\ SlotAt(eszip'.modules, y) = SlotAt(eszip'.modules, x)
         /\ SlotAt(eszip'.modules, y).state = "Ready"
         /\ \A c \in Consumers :
               woken'[c] >= woken[c] + CountOf(SlotAt(eszip.modules, y).wakers, c)
                              + (IF y = x THEN 0
                                 ELSE CountOf(SlotAt(eszip.modules, x).wakers, c))]_vars
\* --------------------------------------------------------------------- C24
\* C24: whenever the continuation future has resolved to Ok, no source slot
\* and no source-map slot of the archive is Pending, and no call of a
\* consumer is suspended on a slot that nothing will fill.
C24_OkMeansLoaded ==
  (phase = "parsed" /\ fut.state = "ok") =>
    /\ \A x \in Slots(eszip.modules) : SlotAt(eszip.modules, x).state # "Pending"
    /\ \A c \in Consumers :
          tasks[c].pc = "polling" =>
            SlotAt(eszip.modules,
                   <<tasks[c].specifier,
                     IF tasks[c].op \in {"source", "take_source"} THEN "source"
                     ELSE "source_map">>).state # "Pending"
\* --------------------------------------------------------------------- C25
\* the slot that the call op polls on the module of the handle of consumer c
\* after this step
SlotPolled(modules, c, op) ==
  SlotAt(modules,
         <<tasks'[c].specifier,
           IF op \in {"source", "take_source"} THEN "source" ELSE "source_map">>)

\* the continuation makes no progress in this step: it is not polled, it
\* was dropped or has resolved to an error before, or it resolves to an
\* error or is dropped in this step
NoProgress == fut' = fut \/ fut'.state \in {"err", "dropped"}

C25_Step ==
  /\ fut.state \in {"err", "dropped"} => fut' = fut
  /\ NoProgress =>
       /\ woken' = woken
       /\ \A x \in Slots(eszip.modules) :
             SlotAt(eszip.modules, x).state = "Pending" =>
               /\ x \in Slots(eszip'.modules)
               /\ SlotAt(eszip'.modules, x).state = "Pending"
               /\ SlotAt(eszip'.modules, x).offset = SlotAt(eszip.modules, x).offset
               /\ SlotAt(eszip'.modules, x).length = SlotAt(eszip.modules, x).length
               /\ IsPrefix(SlotAt(eszip.modules, x).wakers,
                           SlotAt(eszip'.modules, x).wakers)
       /\ \A c \in Consumers :
          \A op \in {"source", "take_source", "source_map", "take_source_map"} :
             (Polls(c, op) /\ SlotPolled(eszip.modules, c, op).state = "Pending") =>
               /\ tasks'[c].pc = "polling"
               /\ tasks'[c].ret = None

\* C25: in every step in which the continuation future makes no progress
\* (it has not been polled yet or is not polled in the step, it was dropped,
\* it has resolved to an error, or it does so in the step) every slot that
\* is Pending stays Pending with its pointer and its registered wakers, no
\* waker is woken, and a poll of source, take_source, source_map or
\* take_source_map on a Pending slot leaves the call suspended; a future that
\* was dropped or has resolved to an error never changes again.  (The
\* consumers and the continuation act; the builder methods do not.)
C25_PendingForever == [][C25_Step]_vars

\* the continuation was dropped after it had filled some slot; a consumer
\* polled a slot that is still Pending, twice, and has not been woken
C25_Witness ==
  /\ fut.state = "dropped"
  /\ \E x \in Slots(eszip.modules) : SlotAt(eszip.modules, x).state = "Ready"
                                       /\ SlotAt(eszip.modules, x).bytes # <<>>
  /\ \E c \in Consumers :
        /\ tasks[c].pc = "polling"
        /\ tasks[c].op = "take_source"
        /\ get(eszip.modules, tasks[c].specifier).source.state = "Pending"
        /\ get(eszip.modules, tasks[c].specifier).source.wakers = <<c, c>>
        /\ woken[c] = 0
\* --------------------------------------------------------------------- C26
\* the slot x exists after this step and was created by it: parse returned
\* the archive, or a builder method inserted the entry of x or replaced it
CreatedByParse(x) ==
  /\ phase = "written" /\ phase' = "parsed"
  /\ x \in Slots(eszip'.modules)

CreatedByBuilder(x) ==
  /\ ops' = ops + 1
  /\ x \in Slots(eszip'.modules)
  /\ \/ ~contains_key(eszip.modules, x[1])
     \/ get(eszip'.modules, x[1]) # get(eszip.modules, x[1])

\* the move of a slot from a to b in this step is one the lifecycle allows:
\* none (a poll may register a waker), Pending to Ready in a step of the
\* continuation that wakes, or Ready to Taken in a step of a take call
Allowed(a, b) ==
  \/ Unparked(a) = Unparked(b)
  \/ /\ a.state = "Pending" /\ b.state = "Ready"
     /\ fut' # fut /\ fut.state \in {"sources", "source_maps"}
     /\ tasks' = tasks
  \/ /\ a.state = "Ready" /\ b = Taken
     /\ fut' = fut /\ ops' = ops
     /\ \E c \in Consumers :
           /\ tasks[c].pc # "idle"
           /\ tasks'[c].pc = "done"
           /\ tasks'[c].op \in {"take_source", "take_source_map"}
           /\ tasks'[c].ret # None \/ tasks'[c].op = "take_source_map"

C26_Step ==
  /\ \A x \in Slots(eszip'.modules) :
        /\ CreatedByBuilder(x) => SlotAt(eszip'.modules, x).state = "Ready"
        /\ (CreatedByParse(x) /\ SlotAt(eszip'.modules, x).state # "Pending") =>
              SlotAt(eszip'.modules, x) = Ready(<<>>)
        /\ SlotAt(eszip'.modules, x).state = "Pending" =>
              \/ CreatedByParse(x)
              \/ /\ x \in Slots(eszip.modules)
                 /\ SlotAt(eszip.modules, x).state = "Pending"
  /\ (phase' = phase /\ fut'.state # "panic") =>
        \A x \in Slots(eszip.modules) :
           /\ x \in Slots(eszip'.modules)
           /\ ~CreatedByBuilder(x) =>
                 Allowed(SlotAt(eszip.modules, x), SlotAt(eszip'.modules, x))
  /\ phase' = "built" =>
        /\ \A x \in Slots(eszip'.modules) : SlotAt(eszip'.modules, x).state # "Pending"
        /\ \A c \in Consumers : tasks'[c].pc # "polling"

C27_Consistent ==
  /\ (phase \in {"built", "parsed"} /\ eszip.options.checksum # None) =>
        checksum_size(eszip.options)
          = Some(digest_size(Unwrap(eszip.options.checksum)))
  /\ ops >= 1 => phase # "failed"
\* --------------------------------------------------------------------- C28
\* the stream is a V2.2 stream whose options section is the selector and the
\* digest size, the selector is known and the size is not its digest size
DeclaresMismatch ==
  /\ Len(stream) >= 8 + 4 + 4
  /\ Slice(stream, 0, 8) = ESZIP_V2_2_MAGIC
  /\ Slice(stream, 8, 12) = to_be_bytes(4)
  /\ stream[13] = 0
  /\ stream[14] \in Checksums
  /\ stream[15] = 1
  /\ stream[16] # digest_size(stream[14])

\* C28: a V2.2 stream that declares a known selector and another digest size
\* than the one of the selector is never parsed: parse fails on it.
C28_MismatchFails == DeclaresMismatch => phase \in {"written", "failed"}

C28_Witness ==
  /\ DeclaresMismatch
  /\ phase = "failed"
  /\ corrupted = NotCorrupted
  /\ stream[14] = NoChecksum
  /\ stream[16] = 8
\* --------------------------------------------------------------------- C29
\* the section that was validated: its selector, the digest size in effect,
\* its body and its digest bytes
Validated == phase = "validated" /\ last.op = "is_checksum_valid"
SizeInEffect == Unwrap(checksum_size(eszip.options))
BodyRead == SubSeq(stream, 1, Len(stream) - SizeInEffect)
DigestRead == SubSeq(stream, Len(stream) - SizeInEffect + 1, Len(stream))
UnderSelector(checksum) == eszip.options.checksum = Some(checksum)

\* C29 as stated: is_checksum_valid is true under NoChecksum whatever the
\* digest size in effect and under a selector that is not known, and under
\* Sha256 and XxHash3 it is true exactly when the digest bytes are hash(body).
C29_Original ==
  Validated =>
    /\ UnderSelector(NoChecksum) => last.valid
    /\ eszip.options.checksum = None => last.valid
    /\ \A checksum \in {Sha256, XxHash3} :
         UnderSelector(checksum) =>
           (last.valid <=> DigestRead = hash(checksum, BodyRead))

\* C29: is_checksum_valid is true under a selector that is not known, and
\* under every known selector, NoChecksum too, it is true exactly when the
\* digest bytes, as many as the digest size in effect, are hash(body); under
\* NoChecksum that is exactly when the digest size in effect is 0.
C29_Valid ==
  Validated =>
    /\ eszip.options.checksum = None => last.valid
    /\ \A checksum \in Checksums :
         UnderSelector(checksum) =>
           (last.valid <=> DigestRead = hash(checksum, BodyRead))
    /\ UnderSelector(NoChecksum) => (last.valid <=> SizeInEffect = 0)

C29_Witness ==
  /\ Validated
  /\ UnderSelector(NoChecksum)
  /\ SizeInEffect = 8
  /\ BodyRead = <<1, 2>>
  /\ ~last.valid
\* --------------------------------------------------------------------- C30
\* the bytes written to a region before the element of the i-th entry: the
\* bodies that are not empty, each with digest more bytes
RECURSIVE WrittenBefore(_, _, _, _)
WrittenBefore(modules, i, field, digest) ==
  IF i <= 1 THEN 0
  ELSE LET module == modules[i - 1].val
           length == IF module.type = "Module" THEN Len(module[field].bytes) ELSE 0
       IN  WrittenBefore(modules, i - 1, field, digest)
             + (IF length > 0 THEN length + digest ELSE 0)

\* a stream that into_bytes wrote for a built archive was parsed: the slots
\* that are Pending hold the pointers of the module table
TableRead ==
  /\ phase = "parsed"
  /\ orig # None
  /\ corrupted = NotCorrupted

\* every pointer that was read is the one of the entry in the written
\* archive, with the offset that digest bytes per element give
OffsetsCount(digest) ==
  \A i \in 1..Len(eszip.modules) : \A field \in {"source", "source_map"} :
    LET entry == eszip.modules[i] IN
    (entry.val.type = "Module" /\ entry.val[field].state = "Pending") =>
      \E j \in 1..Len(Unwrap(orig).modules) :
        /\ Unwrap(orig).modules[j].key = entry.key
        /\ entry.val[field].offset
             = WrittenBefore(Unwrap(orig).modules, j, field, digest)

\* C30 as stated: the offset of a source or source map in the module table
\* is the sum of the lengths of the bodies written before it, no digest
\* bytes counted, under every selector.
C30_Original == TableRead => OffsetsCount(0)

\* C30: the offset of a source or source map in the module table is the sum,
\* over the bodies written before it, of the length of the body and the
\* digest size of the selector; the length prefix of the region is not
\* counted.
C30_Offsets ==
  TableRead => OffsetsCount(digest_size(Unwrap(Unwrap(orig).options.checksum)))

C30_Witness ==
  /\ TableRead
  /\ Unwrap(orig).options.checksum = Some(XxHash3)
  /\ \E i \in 1..Len(eszip.modules) :
       /\ eszip.modules[i].val.type = "Module"
       /\ eszip.modules[i].val.source.state = "Pending"
       /\ eszip.modules[i].val.source.offset = 1 + 8 + 2 + 8
       /\ eszip.modules[i].val.source_map.state = "Pending"
       /\ eszip.modules[i].val.source_map.offset = 1 + 8
\* --------------------------------------------------------------------- C31
\* the region that the continuation consumes, and a step of its loop
RegionField == IF fut.state = "sources" THEN "source" ELSE "source_map"
InRegion ==
  /\ phase = "parsed"
  /\ fut.state \in {"sources", "source_maps"}
  /\ fut.read < fut.len
LoopStep == InRegion /\ phase' = phase /\ fut' # fut /\ fut'.state # "dropped"

\* some Pending slot of the region has the offset at
PendingAt(field, at) ==
  \E i \in 1..Len(eszip.modules) :
    /\ eszip.modules[i].val.type = "Module"
    /\ eszip.modules[i].val[field].state = "Pending"
    /\ eszip.modules[i].val[field].offset = at

C31_Step ==
  (LoopStep /\ ~PendingAt(RegionField, fut.read)) =>
     /\ fut' = FutErr("InvalidV2SourceOffset", <<fut.read>>)
     /\ eszip' = eszip
     /\ woken' = woken

\* C31: when the read position in a data region is not the offset of a
\* Pending slot, the step of the continuation ends it with
\* InvalidV2SourceOffset(position): the reader does not advance, no slot
\* changes and nobody is woken.
C31_UnreferencedOffset == [][C31_Step]_vars
\* --------------------------------------------------------------------- C32
\* parse has returned an error, or the continuation has ended
Ended == phase = "failed" \/ (phase = "parsed" /\ fut.state \in {"ok", "err", "panic"})

\* the entries of the map of offsets of the region being consumed
OffsetsLeft ==
  IF fut.state = "sources" THEN fut.source_offsets ELSE fut.source_map_offsets

\* the number of Pending slots of a region
PendingCount(field) ==
  Cardinality({i \in 1..Len(eszip.modules) :
                 /\ eszip.modules[i].val.type = "Module"
                 /\ eszip.modules[i].val[field].state = "Pending"})

\* the body of the module table that parse read, in bytes
TableRead32 ==
  LET table == IF Slice(stream, 0, 8) = ESZIP_V2_2_MAGIC
                 THEN 8 + 4 + from_be_bytes(Slice(stream, 8, 12))
                        + (IF U32At(8) = 0 THEN 0 ELSE Unwrap(checksum_size(eszip.options)))
                 ELSE 8
  IN  from_be_bytes(Slice(stream, table, table + 4))

\* every iteration of a data region loop ends the continuation or removes an
\* entry of the map of offsets
C32_Step ==
  LoopStep => \/ fut'.state \in {"err", "panic"}
              \/ /\ fut'.state = fut.state
                 /\ Cardinality(OffsetsLeft') < Cardinality(OffsetsLeft)

\* the iterations that a region has left are bounded by its Pending slots,
\* and every entry of the module table took 5 bytes of it or more
C32_Bounded ==
  phase = "parsed" =>
    /\ fut.state \in {"start", "sources"} =>
          Cardinality(fut.source_offsets) <= PendingCount("source")
    /\ fut.state \in {"start", "sources", "source_maps"} =>
          Cardinality(fut.source_map_offsets) <= PendingCount("source_map")
    /\ 5 * Len(eszip.modules) <= TableRead32

\* C32: a call of parse returns an error or an archive whose continuation,
\* when it is awaited, ends, whatever the stream; every
\* iteration of a data region loop ends the continuation or removes one of
\* the entries of the map of offsets, which are not more than the Pending
\* slots of the region, also for an element of 0 bytes that leaves the read
\* position where it was.
C32_Terminates ==
  /\ []C32_Bounded
  /\ [][C32_Step]_vars
  /\ [][phase = "written" /\ phase' # phase => phase' \in {"parsed", "failed"}]_vars
  /\ (phase = "parsed") ~> Ended

C32_Witness ==
  /\ phase = "parsed"
  /\ corrupted = NotCorrupted
  /\ fut.state = "err"
  /\ fut.err = [kind |-> "InvalidV2SourceOffset", arg |-> <<3>>]
  /\ fut.source_offsets = {}
  /\ get(eszip.modules, SC).source = Ready(<<>>)
\* --------------------------------------------------------------------- C33
\* from_graph returned an archive for the options in orig
Built == phase = "built" /\ orig # None
BuiltGraph == Unwrap(orig).graph
BuiltKey(specifier) == resolve_specifier_key(specifier, Unwrap(orig).relative_file_base)

\* the module of the graph that a specifier leads to is stored in an archive
IsStored(graph, specifier) ==
  /\ specifier \in DOMAIN graph.slots
  /\ graph.slots[specifier].variant \in {"Js", "Json"}

\* the code dependencies of a stored module, in their order
CodeOf(module) ==
  IF module.variant # "Js" THEN <<>>
  ELSE LET with == SelectSeq(module.dependencies, LAMBDA dep : dep.code # None)
       IN  [i \in 1..Len(with) |-> Unwrap(with[i].code)]

\* the depth-first pre-order of the graph from the specifiers todo: the
\* first one is visited, then what it imports, then the others; a module
\* is listed at its first visit
RECURSIVE PreOrder(_, _, _)
PreOrder(graph, todo, listed) ==
  IF todo = <<>> THEN listed
  ELSE LET specifier == graph_resolve(graph, Head(todo), Len(graph.redirects)) IN
       IF ~IsStored(graph, specifier) \/ \E i \in 1..Len(listed) : listed[i] = specifier
         THEN PreOrder(graph, Tail(todo), listed)
         ELSE PreOrder(graph, CodeOf(graph.slots[specifier]) \o Tail(todo),
                       Append(listed, specifier))

ExpectedOrder ==
  LET walked == PreOrder(BuiltGraph, BuiltGraph.roots, <<>>) IN
  [i \in 1..Len(walked) |-> BuiltKey(walked[i])]
    \o [i \in 1..Len(BuiltGraph.redirects) |-> BuiltKey(BuiltGraph.redirects[i][1])]

InOrder == specifiers(eszip.modules) = ExpectedOrder

FirstRootFirst ==
  BuiltGraph.roots # <<>> =>
    /\ eszip.modules # <<>>
    /\ specifiers(eszip.modules)[1] = BuiltKey(BuiltGraph.roots[1])

\* C33 as stated: the specifiers of a built archive are the modules of the
\* graph in depth-first pre-order from the roots and then the redirects,
\* and the first root is the first specifier.
C33_Original == Built => InOrder /\ FirstRootFirst

\* C33: the specifiers of a built archive are the modules of the graph in
\* depth-first pre-order from the roots, each at the specifier the graph
\* resolves it to, and then the redirects; the first root is the first
\* specifier when it is itself a Js or Json module of the graph.
C33_Order ==
  Built =>
    /\ InOrder
    /\ (BuiltGraph.roots # <<>> /\ IsStored(BuiltGraph, BuiltGraph.roots[1]))
          => FirstRootFirst

C33_Witness ==
  /\ Built
  /\ Len(eszip.modules) = 4
  /\ eszip.modules[4].val.type = "Redirect"
  /\ specifiers(eszip.modules)[1] = SC
  /\ BuiltGraph.roots = <<SD, SA>>
\* --------------------------------------------------------------------- C34
\* from_graph has returned for the options in orig
Returned == orig # None /\ phase \in {"built", "failed"}

ResolveIn(graph, specifier) == graph_resolve(graph, specifier, Len(graph.redirects))

\* the specifiers the edges of a stored module lead to
EdgeTargets(graph, specifier, static_only) ==
  IF ~IsStored(graph, specifier) \/ graph.slots[specifier].variant # "Js" THEN {}
  ELSE LET deps == graph.slots[specifier].dependencies IN
       {ResolveIn(graph, Unwrap(deps[i].code)) :
          i \in {j \in 1..Len(deps) :
                   /\ deps[j].code # None
                   /\ static_only => ~deps[j].is_dynamic}}

\* what is reached from the roots along the edges, the static ones only or
\* all of them
RECURSIVE ReachedFrom(_, _, _)
ReachedFrom(graph, reached, static_only) ==
  LET more == reached \cup UNION {EdgeTargets(graph, s, static_only) : s \in reached}
  IN  IF more = reached THEN reached ELSE ReachedFrom(graph, more, static_only)

RootTargets(graph) == {ResolveIn(graph, graph.roots[i]) : i \in 1..Len(graph.roots)}
Reached(graph) == ReachedFrom(graph, RootTargets(graph), FALSE)
StaticallyReached(graph) == ReachedFrom(graph, RootTargets(graph), TRUE)

\* the targets of the roots and of the static edges of the modules walked
StaticTargets(graph) ==
  RootTargets(graph) \cup UNION {EdgeTargets(graph, s, TRUE) : s \in Reached(graph)}

IsLoadError(graph, specifier) ==
  specifier \in DOMAIN graph.slots /\ graph.slots[specifier].variant = "Err"
IsAbsent(graph, specifier) == specifier \notin DOMAIN graph.slots

StaticModulesStored ==
  \A s \in StaticallyReached(BuiltGraph) :
    IsStored(BuiltGraph, s) => contains_key(eszip.modules, BuiltKey(s))

\* C34 as stated: a module behind a dynamic edge that has a load error or
\* is absent from the graph is skipped and from_graph returns the archive
\* with every statically reachable module; the same on a static edge or a
\* root is an error.
C34_Original ==
  Returned =>
    IF \E t \in StaticTargets(BuiltGraph) :
         IsLoadError(BuiltGraph, t) \/ IsAbsent(BuiltGraph, t)
      THEN phase = "failed"
      ELSE phase = "built" /\ StaticModulesStored

\* C34: a module behind a dynamic edge that has a load error is skipped and
\* from_graph returns the archive with every statically reachable module;
\* a load error on a static edge or a root is an error, and so is a
\* specifier that is absent from the graph, on any edge.
C34_DynamicMayFail ==
  Returned =>
    IF \/ \E t \in StaticTargets(BuiltGraph) : IsLoadError(BuiltGraph, t)
       \/ \E t \in Reached(BuiltGraph) : IsAbsent(BuiltGraph, t)
      THEN phase = "failed"
      ELSE phase = "built" /\ StaticModulesStored

C34_Witness ==
  /\ Built
  /\ \E t \in Reached(BuiltGraph) :
       IsLoadError(BuiltGraph, t) /\ t \notin StaticTargets(BuiltGraph)
  /\ Len(eszip.modules) >= 2
\* --------------------------------------------------------------------- C35
\* the redirects of the graph whose target is a JavaScript or JSON module
\* that the walk from the roots reaches
StoredRedirects ==
  {i \in 1..Len(BuiltGraph.redirects) :
     LET to == ResolveIn(BuiltGraph, BuiltGraph.redirects[i][2])
     IN  to \in Reached(BuiltGraph) /\ IsStored(BuiltGraph, to)}

RedirectResolves(i) ==
  LET from == BuiltKey(BuiltGraph.redirects[i][1])
      to == ResolveIn(BuiltGraph, BuiltGraph.redirects[i][2])
      found == get_module(eszip.modules, from)
  IN  /\ contains_key(eszip.modules, from)
      /\ get(eszip.modules, from).type = "Redirect"
      /\ contains_key(eszip.modules, get(eszip.modules, from).target)
      /\ found # None
      /\ Unwrap(found).specifier = BuiltKey(to)

\* C35: in an archive built by from_graph, with or without a relative file
\* base, the target of every redirect entry is a key of the archive and
\* get_module of the redirect's key returns the module the graph redirects
\* to.
C35_RedirectsResolve == Built => \A i \in StoredRedirects : RedirectResolves(i)
\* --------------------------------------------------------------------- C36
\* what the stream holds, read without the checks on the indices: the
\* NpmSpecifier records of the module table, whatever the magic, and the
\* packages of the npm section
NpmRecords(bytes, options, pos, valid, table) ==
  IF ~table.ok THEN [ok |-> FALSE]
  ELSE [ok |-> TRUE, valid |-> valid, npm_specifiers |-> table.npm_specifiers,
        section |-> read(bytes, pos, options)]

TableUnder(bytes, options, header) ==
  IF ~header.ok THEN [ok |-> FALSE]
  ELSE NpmRecords(bytes, options, header.pos, is_checksum_valid(header.section),
                    parse_table(content(header.section), 0, <<>>, {}, TRUE))

StreamOptions(bytes) ==
  IF Slice(bytes, 0, 8) = ESZIP_V2_2_MAGIC
    THEN parse_options(bytes, 8, default_for_version(ESZIP_V2_2_MAGIC))
    ELSE [ok |-> TRUE, options |-> default_for_version(Slice(bytes, 0, 8)), pos |-> 8]

TableOf(bytes) ==
  IF ~StreamOptions(bytes).ok THEN [ok |-> FALSE]
  ELSE TableUnder(bytes, StreamOptions(bytes).options,
                  read(bytes, StreamOptions(bytes).pos, StreamOptions(bytes).options))

PackagesIn(section) ==
  IF ~section.ok THEN <<>>
  ELSE IF ~parse_packages(content(section.section), 0, <<>>).ok THEN <<>>
  ELSE parse_packages(content(section.section), 0, <<>>).packages

\* every index of the records and of the dependencies is below the number
\* of packages
IndicesInRange(npm_specifiers, packages) ==
  /\ \A r \in npm_specifiers : r[2] < Len(packages)
  /\ \A i \in 1..Len(packages) :
       \A d \in packages[i].dependencies : d[2] < Len(packages)

NpmIndicesValid(bytes) ==
  /\ TableOf(bytes).ok
  /\ IndicesInRange(TableOf(bytes).npm_specifiers, PackagesIn(TableOf(bytes).section))

\* a stream with the magic ESZIP_V2 whose table is well formed, has a valid
\* digest and holds a record of kind 2
Kind2UnderV2(bytes) ==
  /\ Slice(bytes, 0, 8) = ESZIP_V2_MAGIC
  /\ TableOf(bytes).ok
  /\ TableOf(bytes).valid
  /\ TableOf(bytes).npm_specifiers # {}

C36_Original_Step ==
  ParseStep =>
    /\ (phase' = "parsed" /\ Slice(stream, 0, 8) # ESZIP_V2_MAGIC) => NpmIndicesValid(stream)
    /\ Kind2UnderV2(stream) => phase' = "failed" /\ err'.kind = "InvalidV2EntryKind"

\* C36 as stated: in every stream of version V2.1 or V2.2 that parse accepts
\* every NpmSpecifier record and every package dependency has an index
\* below the number of packages of the npm section, also when the section
\* is empty; under the magic ESZIP_V2 a record of kind 2 is rejected with
\* InvalidV2EntryKind.
C36_Original == [][C36_Original_Step]_vars

C36_Step ==
  ParseStep =>
    /\ (/\ phase' = "parsed"
        /\ Slice(stream, 0, 8) # ESZIP_V2_MAGIC
        /\ PackagesIn(TableOf(stream).section) # <<>>) => NpmIndicesValid(stream)
    /\ (phase' = "parsed" /\ Slice(stream, 0, 8) # ESZIP_V2_MAGIC) =>
          (eszip'.npm_snapshot = None <=> content(TableOf(stream).section.section) = <<>>)
    /\ Kind2UnderV2(stream) => phase' = "failed" /\ err'.kind = "InvalidV2EntryKind"

\* C36: in every stream of version V2.1 or V2.2 that parse accepts and
\* whose npm section is not empty, every NpmSpecifier record and every
\* package dependency has an index below the number of packages of the
\* section; when the section is empty the archive has no snapshot and the
\* NpmSpecifier records of the table are dropped without a check; under
\* the magic ESZIP_V2 a record of kind 2 is rejected with
\* InvalidV2EntryKind.
C36_NpmIndices == [][C36_Step]_vars

\* a V2.2 stream without digests whose npm section was emptied by the
\* transport was parsed: the table has an NpmSpecifier record and the
\* archive has no snapshot
C36_Witness ==
  /\ phase = "parsed"
  /\ Slice(stream, 0, 8) = ESZIP_V2_2_MAGIC
  /\ corrupted.at # 0
  /\ TableOf(stream).ok
  /\ TableOf(stream).npm_specifiers # {}
  /\ content(TableOf(stream).section.section) = <<>>
  /\ eszip.npm_snapshot = None
\* --------------------------------------------------------------------- C37
\* consumer c holds a handle of the V2 archive
HoldsHandle(c) ==
  /\ phase \in {"built", "parsed"}
  /\ tasks[c].pc \in {"handle", "polling", "dropping", "done"}

\* the specifier of the handle is a key of the module map with a Module
HandleValid(c) ==
  /\ contains_key(eszip.modules, tasks[c].specifier)
  /\ get(eszip.modules, tasks[c].specifier).type = "Module"

\* a call of consumer c on its handle panics in this step
CallPanicked(c) ==
  /\ HoldsHandle(c)
  /\ tasks'[c].pc = "panicked"

C37_Original_Step ==
  \A c \in Consumers :
    /\ (HoldsHandle(c) => HandleValid(c))'
    /\ ~CallPanicked(c)

C37_Step ==
  \A c \in Consumers :
    /\ (HoldsHandle(c) => HandleValid(c))'
    /\ CallPanicked(c) =>
         /\ Poisoned
         /\ ~get_mut_panics(eszip.modules, tasks[c].specifier)

IntoBytesCalled ==
  /\ phase \in {"built", "parsed"}
  /\ phase' \in {"written", "panicked"}
  /\ \A c \in Consumers : tasks'[c] = NoTask

\* a source or source-map slot of the archive is in the state
SomeSlot(state) ==
  \E i \in 1..Len(eszip.modules) :
    /\ eszip.modules[i].val.type = "Module"
    /\ \/ eszip.modules[i].val.source.state = state
       \/ eszip.modules[i].val.source_map.state = state

C38_Step ==
  IntoBytesCalled =>
    /\ phase' = "written" => ~SomeSlot("Pending") /\ ~SomeSlot("Taken")
    /\ (SomeSlot("Pending") \/ SomeSlot("Taken")) =>
          /\ phase' = "panicked"
          /\ stream' = stream

\* C38: into_bytes returns bytes only when every source and source-map slot
\* of the archive is Ready; when a slot is Pending or Taken it panics and
\* no stream is produced.
C38_RequiresReady == [][C38_Step]_vars

\* into_bytes panicked on an archive that was parsed from a stream: the
\* stream is still the one that was parsed
C38_Witness ==
  /\ phase = "panicked"
  /\ stream # <<>>
  /\ parse(stream).ok
  /\ \A c \in Consumers : tasks[c] = NoTask

====
